---------------------------- MODULE Spec2Model ----------------------------
(***************************************************************************)
(* LEARN-Hub recommendation core (server/app/core): hard filters, category *)
(* scorers, lesson-plan generation, break assignment and the two-pass      *)
(* ranking of RecommendationPipeline.process; and the database services    *)
(* (server/app/services, app/auth, app/api): user deletion, verification   *)
(* codes and favourites, on tables modelled as sets of rows.               *)
(*                                                                         *)
(* Python objects are modelled by reference: an activity is an object id,  *)
(* its immutable fields are Catalog[id], and its one mutable field,        *)
(* break_after, lives in the heap variable break_after[id].  A candidate   *)
(* is a list of object ids, as the engine's lists hold references.         *)
(* An optional value (int | None, Enum | None, Break | None) is a sequence *)
(* of length 0 (None) or 1.  A list that the code reads only through       *)
(* membership, truthiness and set(...) is a set; an optional list          *)
(* (list | None, the list fields of SearchCriteria) is an optional set.    *)
(* The float 1.0 / 2.0 of priority_multiplier is the integer 1 / 2.        *)
(***************************************************************************)
EXTENDS Integers, Sequences, FiniteSets, TLC

VARIABLES
    pc,                   \* position of the call in progress
    activities,           \* the caller's activity collection (object ids)
    break_after,          \* heap: ActivityModel.break_after of every object
    criteria,             \* self.criteria
    priority_categories,  \* self.priority_categories
    include_breaks,       \* self.include_breaks
    max_activity_count,   \* self.max_activity_count
    limit,                \* self.limit
    filtered_activities,  \* process: filtered_activities
    results,              \* process: scored / ranked / with breaks / rescored
    returned,             \* the list process returns
    break_before,         \* history: the heap when the call started
    subject,              \* unit specifications: the activity, or activity list, under test
    out,                  \* unit specifications: the value computed
    db,                   \* services: the committed rows of the database, by table
    now,                  \* services: the clock, in minutes
    req,                  \* services: the requests in progress, their locals and results
    accepted              \* history: how often verification accepted each code row

vars == <<pc, activities, break_after, criteria, priority_categories,
          include_breaks, max_activity_count, limit, filtered_activities,
          results, returned, break_before, subject, out, db, now, req, accepted>>

\* the variables of the recommendation core, and those of the services
coreVars == <<pc, activities, break_after, criteria, priority_categories,
              include_breaks, max_activity_count, limit, filtered_activities,
              results, returned, break_before, subject, out>>
svcVars == <<db, now, req, accepted>>

\* the core runs without a database
NoServices == db = <<>> /\ now = 0 /\ req = <<>> /\ accepted = <<>>

-----------------------------------------------------------------------------
(* Bounds of the model *)

\* objects of the catalogue a collection is drawn from
NumActs == 3
\* largest limit a call is made with
MaxLimit == 2
\* largest target duration the duration scorer is given
MaxTarget == 50
\* oldest age bound of an activity the age scorer is given
MaxAge == 12
\* longest activity list the cohesion scorer and the break assignment are given
MaxPlan == 3
\* largest collection candidates are generated from (past the 20 seeds of lesson plans)
MaxPool == 21
\* largest collection candidates of every size are generated from
SmallPool == 10
\* largest max_activity_count candidates are generated with (past the 5 of a plan)
MaxCount == 6

\* users the database holds at most
MaxUsers == 2

\* verification codes generated in one run at most
MaxCodes == 1

\* the last minute the clock reaches
MaxTime == 15

\* the attempts a code is counted up to
MaxAttempts == 3

-----------------------------------------------------------------------------
(* app/core/constants.py, app/utils/time_utils.py *)

BLOOM_ORDER == <<"Remember", "Understand", "Apply", "Analyze", "Evaluate", "Create">>
AGE_MAX_DISTANCE == 5
BLOOM_ADJACENT_LEVELS == 1
PRIORITY_CATEGORY_MULTIPLIER == 2
LESSON_PLAN_TOP_ACTIVITIES_LIMIT == 20
AGE_FILTER_TOLERANCE == 2
TIME_INCREMENT_MINUTES == 5

\* SCORING_CATEGORIES[name].impact
SCORING_CATEGORIES ==
    [age_appropriateness |-> 4, bloom_level_match |-> 5, topic_relevance |-> 4,
     duration_fit |-> 3, series_cohesion |-> 3]

(* app/core/models.py: the enumerations' values *)
ActivityFormat == {"unplugged", "digital", "hybrid"}
ActivityResource == {"computers", "tablets", "handouts", "blocks", "electronics", "stationery"}
BloomLevel == {"remember", "understand", "apply", "analyze", "evaluate", "create"}
ActivityTopic == {"decomposition", "patterns", "abstraction", "algorithms"}
PriorityCategory ==
    {"age_appropriateness", "topic_relevance", "duration_fit", "bloom_level_match",
     "series_duration_fit"}

-----------------------------------------------------------------------------
(* Python built-ins the code uses *)

\* str.lower() on the strings of the model
Lower(s) ==
    CASE s = "Remember" -> "remember"
      [] s = "Understand" -> "understand"
      [] s = "Apply" -> "apply"
      [] s = "Analyze" -> "analyze"
      [] s = "Evaluate" -> "evaluate"
      [] s = "Create" -> "create"
      [] OTHER -> s

\* str.capitalize() on the strings of the model
Capitalize(s) ==
    CASE s = "remember" -> "Remember"
      [] s = "understand" -> "Understand"
      [] s = "apply" -> "Apply"
      [] s = "analyze" -> "Analyze"
      [] s = "evaluate" -> "Evaluate"
      [] s = "create" -> "Create"
      [] OTHER -> s

\* x in list
InList(x, list) == \E i \in 1..Len(list) : list[i] = x

\* list.index(x), 0-based, for x in list
IndexOf(list, x) == (CHOOSE i \in 1..Len(list) : list[i] = x) - 1

Abs(n) == IF n < 0 THEN -n ELSE n
Min2(a, b) == IF a <= b THEN a ELSE b
Max2(a, b) == IF a >= b THEN a ELSE b

\* min(max(int(x), 0), 100) on an already truncated x
Clamp(x) == Min2(Max2(x, 0), 100)

RECURSIVE Join(_, _)
\* sep.join(list), on a list of strings
Join(list, sep) ==
    IF list = <<>> THEN ""
    ELSE IF Len(list) = 1 THEN list[1]
    ELSE list[1] \o sep \o Join(Tail(list), sep)

RECURSIVE SumSeq(_)
SumSeq(s) == IF s = <<>> THEN 0 ELSE Head(s) + SumSeq(Tail(s))

\* list[:k + 1]: the slice taken one entry too long
SlicePrefixOffByOne(list, k) ==
    LET n == IF k + 1 >= 0 THEN Min2(k + 1, Len(list)) ELSE Max2(Len(list) + k + 1, 0)
    IN  SubSeq(list, 1, n)

\* list[:k], Python's slice with a possibly negative k
SlicePrefix(list, k) ==
    LET n == IF k >= 0 THEN Min2(k, Len(list)) ELSE Max2(Len(list) + k, 0)
    IN  SubSeq(list, 1, n)

\* sorted(list, key=lambda x: x[1].total_score, reverse=True): a stable sort, so an
\* entry lands behind the entries that score more and behind the earlier entries
\* that score as much
SortedByTotal(list) ==
    LET n      == Len(list)
        key(i) == list[i].score.total_score
        rank   == [i \in 1..n |->
                     Cardinality({j \in 1..n : key(j) > key(i)})
                     + Cardinality({j \in 1..i : key(j) = key(i)})]
    IN  [p \in 1..n |-> list[CHOOSE i \in 1..n : rank[i] = p]]

\* list(itertools.combinations(list, k)), in itertools' order
RECURSIVE combinations(_, _)
combinations(list, k) ==
    IF k = 0 THEN << <<>> >>
    ELSE IF Len(list) < k THEN <<>>
    ELSE LET with == combinations(Tail(list), k - 1)
         IN  [i \in 1..Len(with) |-> <<Head(list)>> \o with[i]]
             \o combinations(Tail(list), k)

-----------------------------------------------------------------------------
(* app/core/models.py: the records *)

None == <<>>
Some(v) == <<v>>
IsNone(o) == o = <<>>
\* Python truthiness of an optional int: None and 0 are falsy
Truthy(o) == o # <<>> /\ o[1] # 0
\* Python truthiness of an optional list: None and [] are falsy
TruthyList(o) == o # <<>> /\ o[1] # {}

\* Break(duration=..., description=..., reasons=...)
Break(duration, description, reasons) ==
    [duration |-> duration, description |-> description, reasons |-> reasons]

\* CategoryScore(category, score, impact, priority_multiplier=1.0, is_priority=False)
CategoryScore(category, score, impact, priority_multiplier, is_priority) ==
    [category |-> category, score |-> score, impact |-> impact,
     priority_multiplier |-> priority_multiplier, is_priority |-> is_priority]

\* ScoreModel(total_score, category_scores, priority_categories, is_sequence, activity_count)
ScoreModel(total_score, category_scores, prio, is_sequence, activity_count) ==
    [total_score |-> total_score, category_scores |-> category_scores,
     priority_categories |-> prio, is_sequence |-> is_sequence,
     activity_count |-> activity_count]

\* SearchCriteria(...): the fields the core reads
SearchCriteria(target_age, format, bloom_levels, target_duration, available_resources, preferred_topics) ==
    [target_age |-> target_age, format |-> format, bloom_levels |-> bloom_levels,
     target_duration |-> target_duration, available_resources |-> available_resources,
     preferred_topics |-> preferred_topics]

\* ActivityModel(...): the fields the core reads, break_after = None
ActivityModel(id, name, age_min, age_max, format, resources_needed, bloom_level, duration_min_minutes, duration_max_minutes, topics, mental_load, physical_energy, cleanup_time_minutes) ==
    [id |-> id, name |-> name, age_min |-> age_min, age_max |-> age_max, format |-> format,
     resources_needed |-> resources_needed, bloom_level |-> bloom_level,
     duration_min_minutes |-> duration_min_minutes,
     duration_max_minutes |-> duration_max_minutes, topics |-> topics,
     mental_load |-> mental_load, physical_energy |-> physical_energy,
     cleanup_time_minutes |-> cleanup_time_minutes, break_after |-> None]

\* The objects a collection is drawn from: object id -> immutable fields
HandMade ==
    << ActivityModel(1, "A1", 8, 10, "unplugged", {}, "understand", 20, None,
                     {"patterns"}, Some("low"), None, None),
       ActivityModel(2, "A2", 10, 14, "unplugged", {"handouts"}, "apply", 10, Some(20),
                     {"patterns", "algorithms"}, Some("high"), Some("low"), Some(0)),
       ActivityModel(3, "A3", 12, 15, "digital", {"computers"}, "remember", 30, Some(30),
                     {}, None, Some("high"), Some(3)),
       ActivityModel(4, "A4", 6, 7, "hybrid", {"computers", "tablets"}, "create", 45, Some(60),
                     {"decomposition", "algorithms"}, Some("medium"), None, Some(10)),
       ActivityModel(5, "A5", 13, 13, "digital", {}, "apply", 5, None,
                     {"abstraction"}, Some("high"), Some("high"), None),
       ActivityModel(6, "A6", 9, 12, "unplugged", {"stationery"}, "analyze", 25, Some(35),
                     {"patterns", "abstraction"}, Some("high"), Some("medium"), Some(10)) >>

\* further objects, enough for a collection longer than the 20 seeds of lesson plans
Plain(id) ==
    ActivityModel(id, "A" \o ToString(id), 6 + (id % 8), 8 + (id % 8),
                  <<"unplugged", "digital", "hybrid">>[1 + (id % 3)], {},
                  <<"remember", "understand", "apply", "analyze", "evaluate",
                    "create">>[1 + (id % 6)],
                  10 + 5 * (id % 4), None,
                  <<{}, {"patterns"}, {"algorithms"}, {"patterns", "abstraction"}>>[1 + (id % 4)],
                  None, None, None)

Catalog == HandMade \o [i \in 1..18 |-> Plain(Len(HandMade) + i)]

\* The object as the code sees it now: its fields and its current break_after
Obj(id, heap) == [Catalog[id] EXCEPT !.break_after = heap[id]]
Objs(ids, heap) == [i \in 1..Len(ids) |-> Obj(ids[i], heap)]

-----------------------------------------------------------------------------
(* app/core/filters.py *)

\* the body of the loop with the age window compared strictly (< and > for <= and >=)
passes_hard_filters_strict_age(activity, c) ==
    /\ ~IsNone(c.target_age) =>
          /\ activity.age_min < c.target_age[1] + AGE_FILTER_TOLERANCE
          /\ activity.age_max > c.target_age[1] - AGE_FILTER_TOLERANCE
    /\ TruthyList(c.format) => activity.format \in c.format[1]
    /\ ~IsNone(c.target_duration) =>
          ~(activity.duration_min_minutes > c.target_duration[1])
    /\ (TruthyList(c.available_resources) /\ activity.resources_needed # {}) =>
          {Lower(r) : r \in activity.resources_needed}
              \subseteq {Lower(r) : r \in c.available_resources[1]}
    /\ TruthyList(c.bloom_levels) =>
          \E level \in c.bloom_levels[1] : Lower(activity.bloom_level) = Lower(level)
    /\ TruthyList(c.preferred_topics) =>
          \E topic \in c.preferred_topics[1] : topic \in activity.topics

\* the filter with the age tolerance as wide as the scorer's AGE_MAX_DISTANCE
passes_hard_filters_wide_age(activity, c) ==
    /\ ~IsNone(c.target_age) =>
          /\ activity.age_min <= c.target_age[1] + AGE_MAX_DISTANCE
          /\ activity.age_max >= c.target_age[1] - AGE_MAX_DISTANCE
    /\ TruthyList(c.format) => activity.format \in c.format[1]
    /\ ~IsNone(c.target_duration) =>
          ~(activity.duration_min_minutes > c.target_duration[1])
    /\ (TruthyList(c.available_resources) /\ activity.resources_needed # {}) =>
          LET available_set == {Lower(r) : r \in c.available_resources[1]}
              required_set  == {Lower(r) : r \in activity.resources_needed}
          IN  required_set \subseteq available_set
    /\ TruthyList(c.bloom_levels) =>
          \E level \in c.bloom_levels[1] : Lower(activity.bloom_level) = Lower(level)
    /\ TruthyList(c.preferred_topics) =>
          \E topic \in c.preferred_topics[1] : topic \in activity.topics

\* the body of the loop of apply_hard_filters: TRUE when no `continue` is taken
passes_hard_filters(activity, c) ==
    /\ ~IsNone(c.target_age) =>
          /\ activity.age_min <= c.target_age[1] + AGE_FILTER_TOLERANCE
          /\ activity.age_max >= c.target_age[1] - AGE_FILTER_TOLERANCE
    /\ TruthyList(c.format) => activity.format \in c.format[1]
    /\ ~IsNone(c.target_duration) =>
          ~(activity.duration_min_minutes > c.target_duration[1])
    /\ (TruthyList(c.available_resources) /\ activity.resources_needed # {}) =>
          LET available_set == {Lower(r) : r \in c.available_resources[1]}
              required_set  == {Lower(r) : r \in activity.resources_needed}
          IN  required_set \subseteq available_set
    /\ TruthyList(c.bloom_levels) =>
          \E level \in c.bloom_levels[1] : Lower(activity.bloom_level) = Lower(level)
    /\ TruthyList(c.preferred_topics) =>
          \E topic \in c.preferred_topics[1] : topic \in activity.topics

RECURSIVE apply_hard_filters_removing_in_place(_, _)
\* the filter written as `for a in activities: if not ok(a): activities.remove(a)`:
\* each removal shifts the list under the iterator, which skips the next activity
apply_hard_filters_removing_in_place(ids, c) ==
    IF ids = <<>> THEN <<>>
    ELSE IF passes_hard_filters(Catalog[Head(ids)], c)
    THEN <<Head(ids)>> \o apply_hard_filters_removing_in_place(Tail(ids), c)
    ELSE IF Len(ids) = 1 THEN <<>>
    ELSE <<ids[2]>> \o apply_hard_filters_removing_in_place(Tail(Tail(ids)), c)

RECURSIVE apply_hard_filters(_, _)
\* for activity in activities: ...; filtered.append(activity)
apply_hard_filters(ids, c) ==
    IF ids = <<>> THEN <<>>
    ELSE (IF passes_hard_filters(Catalog[Head(ids)], c) THEN <<Head(ids)>> ELSE <<>>)
         \o apply_hard_filters(Tail(ids), c)

-----------------------------------------------------------------------------
(* app/core/scoring.py: ScoringEngine.  prio is self.priority_categories *)

\* the priority_multiplier / is_priority block every scorer ends with
PriorityMultiplier(name, prio) == IF name \in prio THEN PRIORITY_CATEGORY_MULTIPLIER ELSE 1
IsPriority(name, prio) == name \in prio

\* the early return of a scorer: CategoryScore(category, score=0, impact)
ZeroScore(name) == CategoryScore(name, 0, SCORING_CATEGORIES[name], 1, FALSE)

\* the scorer with the distance always taken from age_min, also above the range
_score_age_appropriateness_from_age_min(activity, c, prio) ==
    IF IsNone(c.target_age) THEN ZeroScore("age_appropriateness")
    ELSE LET target_age == c.target_age[1]
             distance   == activity.age_min - target_age
             raw_score  == IF activity.age_min <= target_age /\ target_age <= activity.age_max
                           THEN 100
                           ELSE IF distance <= AGE_MAX_DISTANCE
                           THEN ((AGE_MAX_DISTANCE - distance) * 100) \div AGE_MAX_DISTANCE
                           ELSE 0
         IN  CategoryScore("age_appropriateness", Clamp(raw_score),
                           SCORING_CATEGORIES["age_appropriateness"],
                           PriorityMultiplier("age_appropriateness", prio),
                           IsPriority("age_appropriateness", prio))

_score_age_appropriateness(activity, c, prio) ==
    IF IsNone(c.target_age) THEN ZeroScore("age_appropriateness")
    ELSE LET target_age == c.target_age[1]
             distance   == IF target_age < activity.age_min
                           THEN activity.age_min - target_age
                           ELSE target_age - activity.age_max
             \* int(((AGE_MAX_DISTANCE - distance) / AGE_MAX_DISTANCE) * 100.0)
             raw_score  == IF activity.age_min <= target_age /\ target_age <= activity.age_max
                           THEN 100
                           ELSE IF distance <= AGE_MAX_DISTANCE
                           THEN ((AGE_MAX_DISTANCE - distance) * 100) \div AGE_MAX_DISTANCE
                           ELSE 0
         IN  CategoryScore("age_appropriateness", Clamp(raw_score),
                           SCORING_CATEGORIES["age_appropriateness"],
                           PriorityMultiplier("age_appropriateness", prio),
                           IsPriority("age_appropriateness", prio))

\* one pass of the loop over target_bloom_levels: the raw score this level offers
BloomRawScore(activity, target_bloom) ==
    IF Lower(target_bloom) = Lower(activity.bloom_level) THEN 100
    ELSE IF InList(target_bloom, BLOOM_ORDER) /\ InList(activity.bloom_level, BLOOM_ORDER)
    THEN LET target_idx   == IndexOf(BLOOM_ORDER, Capitalize(target_bloom))
             activity_idx == IndexOf(BLOOM_ORDER, Capitalize(activity.bloom_level))
         IN  IF Abs(target_idx - activity_idx) = BLOOM_ADJACENT_LEVELS THEN 50 ELSE 0
    ELSE 0

_score_bloom_level_match(activity, c, prio) ==
    IF ~TruthyList(c.bloom_levels) THEN ZeroScore("bloom_level_match")
    ELSE LET offers         == {BloomRawScore(activity, t) : t \in c.bloom_levels[1]}
             best_raw_score == CHOOSE b \in offers \cup {0} :
                                   \A o \in offers : o <= b
         IN  CategoryScore("bloom_level_match", Clamp(best_raw_score),
                           SCORING_CATEGORIES["bloom_level_match"],
                           PriorityMultiplier("bloom_level_match", prio),
                           IsPriority("bloom_level_match", prio))

_score_topic_relevance(activity, c, prio) ==
    IF ~TruthyList(c.preferred_topics) \/ activity.topics = {}
    THEN ZeroScore("topic_relevance")
    ELSE LET preferred_set   == {Lower(t) : t \in c.preferred_topics[1]}
             activity_set    == {Lower(t) : t \in activity.topics}
             matches         == Cardinality(preferred_set \cap activity_set)
             total_preferred == Cardinality(preferred_set)
             \* int((matches / total_preferred) * 100.0)
             raw_score       == IF total_preferred = 0 THEN 0
                                ELSE (matches * 100) \div total_preferred
         IN  CategoryScore("topic_relevance", Clamp(raw_score),
                           SCORING_CATEGORIES["topic_relevance"],
                           PriorityMultiplier("topic_relevance", prio),
                           IsPriority("topic_relevance", prio))

\* the loop without its is_last test: the break of every position is added
TotalDurationCountingLastBreak(acts) ==
    SumSeq([idx \in 1..Len(acts) |->
        LET activity     == acts[idx]
            duration_max == IF Truthy(activity.duration_max_minutes)
                            THEN activity.duration_max_minutes[1]
                            ELSE activity.duration_min_minutes
        IN  (activity.duration_min_minutes + duration_max) \div 2
            + (IF ~IsNone(activity.break_after)
               THEN activity.break_after[1].duration ELSE 0)])

\* the loop of _score_duration_fit: midpoints, plus the breaks of non-final positions
TotalDuration(acts) ==
    SumSeq([idx \in 1..Len(acts) |->
        LET activity     == acts[idx]
            duration_max == IF Truthy(activity.duration_max_minutes)
                            THEN activity.duration_max_minutes[1]
                            ELSE activity.duration_min_minutes
            is_last      == idx = Len(acts)
        IN  (activity.duration_min_minutes + duration_max) \div 2
            + (IF ~is_last /\ ~IsNone(activity.break_after)
               THEN activity.break_after[1].duration ELSE 0)])

\* int((1 - ratio) * 100.0) for ratio = deviation / target_duration <= 0.5, else 0.
\* The float product equals the exact quotient truncated, except at ratio 0.34,
\* where 1 - 0.34 is 0.6599999999999999 and the product truncates to 65.
DurationRawScore(total_duration, target_duration) ==
    LET deviation == Abs(total_duration - target_duration)
    IN  IF total_duration = target_duration THEN 100
        ELSE IF 2 * deviation > target_duration THEN 0
        ELSE IF 50 * deviation = 17 * target_duration THEN 65
        ELSE ((target_duration - deviation) * 100) \div target_duration

_score_duration_fit(acts, c, prio) ==
    IF IsNone(c.target_duration) THEN ZeroScore("duration_fit")
    ELSE IF TotalDuration(acts) = 0 THEN ZeroScore("duration_fit")
    ELSE CategoryScore("duration_fit",
                       Clamp(DurationRawScore(TotalDuration(acts), c.target_duration[1])),
                       SCORING_CATEGORIES["duration_fit"],
                       PriorityMultiplier("duration_fit", prio),
                       IsPriority("duration_fit", prio))

RECURSIVE SumOver(_, _)
\* sum(f[k] for k in keys)
SumOver(f, keys) ==
    IF keys = {} THEN 0
    ELSE LET k == CHOOSE x \in keys : TRUE
         IN  f[k] + SumOver(f, keys \ {k})

\* the weighted total with the priority multiplier folded into the weights
_calculate_weighted_total_with_priority(category_scores) ==
    LET names        == DOMAIN category_scores
        weighted_sum == SumOver([n \in names |-> category_scores[n].score
                                     * category_scores[n].impact
                                     * category_scores[n].priority_multiplier], names)
        total_weight == SumOver([n \in names |-> category_scores[n].impact
                                     * category_scores[n].priority_multiplier], names)
    IN  IF names = {} \/ total_weight = 0 THEN 0
        ELSE Clamp(weighted_sum \div total_weight)

_calculate_weighted_total(category_scores) ==
    LET names        == DOMAIN category_scores
        weighted_sum == SumOver([n \in names |-> category_scores[n].score * category_scores[n].impact], names)
        total_weight == SumOver([n \in names |-> category_scores[n].impact], names)
    IN  IF names = {} \/ total_weight = 0 THEN 0
        ELSE Clamp(weighted_sum \div total_weight)

\* the averages with the division by len(activity_scores) left out
_calculate_average_individual_scores_undivided(activity_scores, prio) ==
    IF Len(activity_scores) = 0 THEN [n \in {} |-> 0]
    ELSE LET category_names == DOMAIN activity_scores[1].category_scores
         IN  [category_name \in category_names |->
                LET total_score == SumSeq([i \in 1..Len(activity_scores) |->
                                       activity_scores[i].category_scores[category_name].score])
                    is_priority == Lower(category_name) \in {Lower(cat) : cat \in prio}
                IN  CategoryScore(category_name, total_score,
                                  SCORING_CATEGORIES[category_name],
                                  IF is_priority THEN PRIORITY_CATEGORY_MULTIPLIER ELSE 1,
                                  is_priority)]

_calculate_average_individual_scores(activity_scores, prio) ==
    IF Len(activity_scores) = 0 THEN [n \in {} |-> 0]
    ELSE LET category_names == DOMAIN activity_scores[1].category_scores
         IN  [category_name \in category_names |->
                LET total_score == SumSeq([i \in 1..Len(activity_scores) |->
                                       activity_scores[i].category_scores[category_name].score])
                    avg_score   == total_score \div Len(activity_scores)
                    is_priority == Lower(category_name) \in {Lower(cat) : cat \in prio}
                IN  CategoryScore(category_name, avg_score,
                                  SCORING_CATEGORIES[category_name],
                                  IF is_priority THEN PRIORITY_CATEGORY_MULTIPLIER ELSE 1,
                                  is_priority)]

\* the Jaccard overlap of one consecutive pair, in twelfths (|a \cup b| <= 4 divides 12)
OverlapTwelfths(a, b) ==
    LET current_topics == {Lower(t) : t \in a.topics}
        next_topics    == {Lower(t) : t \in b.topics}
    IN  IF current_topics # {} /\ next_topics # {}
        THEN (12 * Cardinality(current_topics \cap next_topics))
                 \div Cardinality(current_topics \cup next_topics)
        ELSE 0

BloomIndex(activity) ==
    IF InList(Capitalize(activity.bloom_level), BLOOM_ORDER)
    THEN IndexOf(BLOOM_ORDER, Capitalize(activity.bloom_level))
    ELSE 0

\* the scorer asking for strictly increasing Bloom levels (< for <=)
_score_series_cohesion_category_strict(acts) ==
    IF Len(acts) = 1
    THEN CategoryScore("series_cohesion", SCORING_CATEGORIES["series_cohesion"] * 20,
                       SCORING_CATEGORIES["series_cohesion"], 1, FALSE)
    ELSE LET pairs          == Len(acts) - 1
             twelfths       == SumSeq([i \in 1..pairs |-> OverlapTwelfths(acts[i], acts[i + 1])])
             is_progressive == \A i \in 1..pairs : BloomIndex(acts[i]) < BloomIndex(acts[i + 1])
             cohesion_score == (twelfths * 50) \div (12 * pairs)
                               + (IF is_progressive THEN 50 ELSE 25)
         IN  CategoryScore("series_cohesion", Clamp(Min2(cohesion_score, 100)),
                           SCORING_CATEGORIES["series_cohesion"], 1, FALSE)

_score_series_cohesion_category(acts) ==
    IF Len(acts) = 1
    THEN CategoryScore("series_cohesion", SCORING_CATEGORIES["series_cohesion"] * 20,
                       SCORING_CATEGORIES["series_cohesion"], 1, FALSE)
    ELSE LET pairs          == Len(acts) - 1
             twelfths       == SumSeq([i \in 1..pairs |-> OverlapTwelfths(acts[i], acts[i + 1])])
             is_progressive == \A i \in 1..pairs : BloomIndex(acts[i]) <= BloomIndex(acts[i + 1])
             bloom_progression_score == IF Len(acts) > 1
                                        THEN (IF is_progressive THEN 50 ELSE 25)
                                        ELSE 0
             \* int((topic_overlap_score / (len - 1)) * 50 + bloom_progression_score)
             cohesion_score == IF Len(acts) > 1
                               THEN (twelfths * 50) \div (12 * pairs) + bloom_progression_score
                               ELSE 0
         IN  CategoryScore("series_cohesion", Clamp(Min2(cohesion_score, 100)),
                           SCORING_CATEGORIES["series_cohesion"], 1, FALSE)

score_activity(activity, c, prio) ==
    LET category_scores ==
            [age_appropriateness |-> _score_age_appropriateness(activity, c, prio),
             bloom_level_match   |-> _score_bloom_level_match(activity, c, prio),
             topic_relevance     |-> _score_topic_relevance(activity, c, prio),
             duration_fit        |-> _score_duration_fit(<<activity>>, c, prio)]
    IN  ScoreModel(_calculate_weighted_total(category_scores), category_scores, prio, FALSE, 1)

score_activity_without_duration(activity, c, prio) ==
    LET category_scores ==
            [age_appropriateness |-> _score_age_appropriateness(activity, c, prio),
             bloom_level_match   |-> _score_bloom_level_match(activity, c, prio),
             topic_relevance     |-> _score_topic_relevance(activity, c, prio)]
    IN  ScoreModel(_calculate_weighted_total(category_scores), category_scores, prio, FALSE, 1)

\* category_scores[name] = value, on a dict
DictSet(d, name, value) ==
    [n \in DOMAIN d \cup {name} |-> IF n = name THEN value ELSE d[n]]

\* score_sequence keeping the members' average as duration_fit
score_sequence_averaging_duration(acts, c, prio) ==
    LET activity_scores == [i \in 1..Len(acts) |-> score_activity(acts[i], c, prio)]
        averages        == _calculate_average_individual_scores(activity_scores, prio)
        category_scores == DictSet(averages,
                               "series_cohesion", _score_series_cohesion_category(acts))
    IN  ScoreModel(_calculate_weighted_total(category_scores), category_scores, prio,
                   TRUE, Len(acts))

score_sequence(acts, c, prio) ==
    LET activity_scores == [i \in 1..Len(acts) |-> score_activity(acts[i], c, prio)]
        averages        == _calculate_average_individual_scores(activity_scores, prio)
        category_scores == DictSet(DictSet(averages,
                               "series_cohesion", _score_series_cohesion_category(acts)),
                               "duration_fit", _score_duration_fit(acts, c, prio))
    IN  ScoreModel(_calculate_weighted_total(category_scores), category_scores, prio,
                   TRUE, Len(acts))

score_sequence_without_duration(acts, c, prio) ==
    LET activity_scores == [i \in 1..Len(acts) |->
                               score_activity_without_duration(acts[i], c, prio)]
        averages        == _calculate_average_individual_scores(activity_scores, prio)
        category_scores == DictSet(averages,
                               "series_cohesion", _score_series_cohesion_category(acts))
    IN  ScoreModel(_calculate_weighted_total(category_scores), category_scores, prio,
                   TRUE, Len(acts))

-----------------------------------------------------------------------------
(* app/core/engine.py: RecommendationPipeline.  A result is the tuple        *)
(* (activities, score): a list of object ids and a ScoreModel.               *)

Result(ids, score) == [activities |-> ids, score |-> score]

\* the duration rounded down to a multiple of 5
round_down_to_5_minutes(duration) ==
    IF duration <= 0 THEN 0
    ELSE (duration \div TIME_INCREMENT_MINUTES) * TIME_INCREMENT_MINUTES

\* round_up_to_nearest_5_minutes (app/utils/time_utils.py)
round_up_to_nearest_5_minutes(duration) ==
    IF duration <= 0 THEN 0
    ELSE ((duration - 1) \div TIME_INCREMENT_MINUTES + 1) * TIME_INCREMENT_MINUTES

\* one pass of the loop of _assign_breaks_to_activities for a non-final activity:
\* the reasons and the duration accumulated
BreakReasons(activity, next_activity) ==
    (IF Truthy(activity.cleanup_time_minutes) /\ activity.cleanup_time_minutes[1] > 0
     THEN <<"Cleanup time for " \o activity.name>> ELSE <<>>)
    \o (IF activity.mental_load = Some("high")
        THEN <<"Mental rest break after high cognitive load">> ELSE <<>>)
    \o (IF activity.physical_energy = Some("high")
        THEN <<"Physical rest break after high energy activity">> ELSE <<>>)
    \o (IF activity.format # next_activity.format
        THEN <<"Transition break from " \o activity.format \o " to "
                   \o next_activity.format>>
        ELSE <<>>)

BreakDuration(activity, next_activity) ==
    (IF Truthy(activity.cleanup_time_minutes) /\ activity.cleanup_time_minutes[1] > 0
     THEN activity.cleanup_time_minutes[1] ELSE 0)
    + (IF activity.mental_load = Some("high") THEN 10 ELSE 0)
    + (IF activity.physical_energy = Some("high") THEN 5 ELSE 0)
    + (IF activity.format # next_activity.format THEN 5 ELSE 0)

\* _assign_breaks_to_activities modifies the objects in place: the heap after the
\* call.  The loop visits every position but the last (i == len(activities) - 1:
\* continue) and reads only fields it does not write, so an object keeps its
\* break_after unless a visited position that holds it assigns one (the last such
\* position wins).
_assign_breaks_to_activities(ids, heap) ==
    IF Len(ids) <= 1 THEN heap
    ELSE [id \in DOMAIN heap |->
            LET assigning == {i \in 1..(Len(ids) - 1) :
                                /\ ids[i] = id
                                /\ BreakReasons(Catalog[ids[i]], Catalog[ids[i + 1]]) # <<>>
                                /\ BreakDuration(Catalog[ids[i]], Catalog[ids[i + 1]]) > 0}
                i         == CHOOSE k \in assigning : \A m \in assigning : m <= k
            IN  IF assigning = {} THEN heap[id]
                ELSE Some(Break(round_up_to_nearest_5_minutes(
                                    BreakDuration(Catalog[ids[i]], Catalog[ids[i + 1]])),
                                Join(BreakReasons(Catalog[ids[i]], Catalog[ids[i + 1]]), "; "),
                                BreakReasons(Catalog[ids[i]], Catalog[ids[i + 1]])))]

RECURSIVE LessonPlans(_, _, _)
\* the loop `for k in range(2, stop)` from k on: the lesson plans, in order
LessonPlans(top_activities, k, stop) ==
    IF k >= stop THEN <<>>
    ELSE (IF k <= Len(top_activities) THEN combinations(top_activities, k) ELSE <<>>)
         \o LessonPlans(top_activities, k + 1, stop)

\* the generation with the loop running to max_activity_count, without the cap at 5
_score_all_activities_uncapped(ids, heap, c, prio, max_count) ==
    LET singles == [i \in 1..Len(ids) |->
                       Result(<<ids[i]>>,
                              score_activity_without_duration(Obj(ids[i], heap), c, prio))]
        top_activities == [i \in 1..Min2(Len(singles), LESSON_PLAN_TOP_ACTIVITIES_LIMIT) |->
                              singles[i].activities[1]]
        plans == IF max_count > 1 /\ Len(ids) > 1
                 THEN LessonPlans(top_activities, 2, max_count + 1)
                 ELSE <<>>
    IN  singles \o [i \in 1..Len(plans) |->
                       Result(plans[i],
                              score_sequence_without_duration(Objs(plans[i], heap), c, prio))]

_score_all_activities_without_duration(ids, heap, c, prio, max_count) ==
    LET singles == [i \in 1..Len(ids) |->
                       Result(<<ids[i]>>,
                              score_activity_without_duration(Obj(ids[i], heap), c, prio))]
        top_activities == [i \in 1..Min2(Len(singles), LESSON_PLAN_TOP_ACTIVITIES_LIMIT) |->
                              singles[i].activities[1]]
        plans == IF max_count > 1 /\ Len(ids) > 1
                 THEN LessonPlans(top_activities, 2, Min2(max_count + 1, 6))
                 ELSE <<>>
    IN  singles \o [i \in 1..Len(plans) |->
                       Result(plans[i],
                              score_sequence_without_duration(Objs(plans[i], heap), c, prio))]

RECURSIVE AddBreaksUpTo(_, _, _)
\* the loop of _add_breaks_if_requested over the first i results: the heap after
AddBreaksUpTo(res, i, heap) ==
    IF i = 0 THEN heap
    ELSE IF Len(res[i].activities) > 1
    THEN _assign_breaks_to_activities(res[i].activities, AddBreaksUpTo(res, i - 1, heap))
    ELSE AddBreaksUpTo(res, i - 1, heap)

\* the break assigner run whatever the caller requested
_add_breaks_unasked(res, heap, with_breaks) ==
    AddBreaksUpTo(res, Len(res), heap)

\* _add_breaks_if_requested returns the results with each list copied (the copies hold
\* the same objects) and leaves the breaks on the objects: the heap after the call
_add_breaks_if_requested(res, heap, with_breaks) ==
    IF ~with_breaks THEN heap ELSE AddBreaksUpTo(res, Len(res), heap)

\* the rescoring that keeps the order of the first ranking
_rescore_duration_without_rank(res, heap, c, prio) ==
    LET kept == SelectSeq(res, LAMBDA r : r.activities # <<>>)
    IN  [i \in 1..Len(kept) |->
            Result(kept[i].activities,
                   IF Len(kept[i].activities) = 1
                   THEN score_activity(Obj(kept[i].activities[1], heap), c, prio)
                   ELSE score_sequence(Objs(kept[i].activities, heap), c, prio))]

_rescore_duration_and_rank(res, heap, c, prio) ==
    LET kept == SelectSeq(res, LAMBDA r : r.activities # <<>>)
    IN  SortedByTotal([i \in 1..Len(kept) |->
            Result(kept[i].activities,
                   IF Len(kept[i].activities) = 1
                   THEN score_activity(Obj(kept[i].activities[1], heap), c, prio)
                   ELSE score_sequence(Objs(kept[i].activities, heap), c, prio))])

-----------------------------------------------------------------------------
(* app/api/activities: the endpoints that serialise recommendations and pass  *)
(* a lesson plan to the PDF generator                                         *)

\* BreakResponse(id=..., duration=..., description=..., reasons=...)
BreakResponse(id, duration, description, reasons) ==
    [type |-> "break", id |-> id, duration |-> duration, description |-> description,
     reasons |-> reasons]

\* ActivityResponse(...): the fields of the model, type and break_after
ActivityResponse(activity, break_after_data) ==
    [id |-> activity.id, name |-> activity.name, age_min |-> activity.age_min,
     age_max |-> activity.age_max, format |-> activity.format,
     bloom_level |-> activity.bloom_level,
     duration_min_minutes |-> activity.duration_min_minutes,
     duration_max_minutes |-> activity.duration_max_minutes,
     mental_load |-> activity.mental_load, physical_energy |-> activity.physical_energy,
     cleanup_time_minutes |-> activity.cleanup_time_minutes,
     resources_needed |-> activity.resources_needed, topics |-> activity.topics,
     type |-> "activity", break_after |-> break_after_data]

\* the serialisation with the break of every activity that holds one, the last too
activity_responses_exposing_last(activities_list, heap) ==
    [index \in 1..Len(activities_list) |->
        LET activity == Obj(activities_list[index], heap)
        IN  ActivityResponse(activity,
                IF ~IsNone(activity.break_after)
                THEN Some(BreakResponse("break-" \o ToString(activity.id),
                                        activity.break_after[1].duration,
                                        activity.break_after[1].description,
                                        activity.break_after[1].reasons))
                ELSE None)]

\* the inner loop of the recommendations endpoint over one candidate's activities
activity_responses(activities_list, heap) ==
    [index \in 1..Len(activities_list) |->
        LET activity == Obj(activities_list[index], heap)
            is_last  == index = Len(activities_list)
        IN  ActivityResponse(activity,
                IF ~is_last /\ ~IsNone(activity.break_after)
                THEN Some(BreakResponse("break-" \o ToString(activity.id),
                                        activity.break_after[1].duration,
                                        activity.break_after[1].description,
                                        activity.break_after[1].reasons))
                ELSE None)]

\* the outer loop: one entry per recommendation
recommendations_data(recommendations, heap) ==
    [i \in 1..Len(recommendations) |->
        [activities      |-> activity_responses(recommendations[i].activities, heap),
         score           |-> recommendations[i].score.total_score,
         score_breakdown |-> recommendations[i].score.category_scores]]

\* Python truthiness of dict.get(key): a missing key, None and {} are falsy
TruthyDict(o) == o # <<>> /\ DOMAIN o[1] # {}

\* the breaks generate_lesson_plan hands to the PDF generator
lesson_plan_breaks(body) ==
    LET acts       == body.activities
        given      == body.breaks # <<>> /\ Len(body.breaks[1]) > 0
        holders    == SelectSeq([idx \in 1..Len(acts) |-> idx],
                                LAMBDA idx : idx < Len(acts)
                                             /\ TruthyDict(acts[idx].break_after))
        breaks     == IF given THEN body.breaks[1]
                      ELSE [k \in 1..Len(holders) |-> acts[holders[k]].break_after[1]]
        max_breaks == Max2(Len(acts) - 1, 0)
    IN  IF Len(breaks) > max_breaks THEN SlicePrefix(breaks, max_breaks) ELSE breaks

-----------------------------------------------------------------------------
(* app/services/verification_service.py: the literals of the code's life *)

\* timedelta(minutes=10): a code expires ten minutes after it was generated
CODE_LIFETIME_MINUTES == 10

\* attempts >= 3: a code with three counted attempts is no longer accepted
ATTEMPTS_LIMIT == 3

-----------------------------------------------------------------------------
(* app/db/models/user.py, app/services: the tables and the SQLAlchemy session *)
(* A table is the set of its rows.  A session holds the committed rows (db),  *)
(* the rows it sees with its own uncommitted changes (tx), the commits and    *)
(* rollbacks it issued, and the exception in flight.                          *)

\* User(id, email, role)
User(id, email, role) == [id |-> id, email |-> email, role |-> role]

\* VerificationCode(user_id, code, expires_at, attempts, used)
VerificationCode(id, user_id, code, expires_at, attempts, used) ==
    [id |-> id, user_id |-> user_id, code |-> code, expires_at |-> expires_at,
     attempts |-> attempts, used |-> used]

\* UserSearchHistory(user_id, search_criteria)
UserSearchHistory(id, user_id) == [id |-> id, user_id |-> user_id]

\* UserFavourites(user_id, favourite_type, activity_id, name)
UserFavourites(id, user_id, favourite_type, activity_id) ==
    [id |-> id, user_id |-> user_id, favourite_type |-> favourite_type,
     activity_id |-> activity_id]

Tables(users, verification_codes, user_search_history, user_favourites) ==
    [users |-> users, verification_codes |-> verification_codes,
     user_search_history |-> user_search_history, user_favourites |-> user_favourites]

Session(rows) == [db |-> rows, tx |-> rows, commits |-> 0, rollbacks |-> 0, exc |-> None]

\* every row that names a user names one of the users table
ForeignKeysHold(rows) ==
    LET ids == {u.id : u \in rows.users}
    IN  /\ \A r \in rows.verification_codes : r.user_id \in ids
        /\ \A r \in rows.user_search_history : r.user_id \in ids
        /\ \A r \in rows.user_favourites : r.user_id \in ids

raise(s, exception) == [s EXCEPT !.exc = Some(exception)]

\* db.commit(): the flush fails on a row left without its user
commit(s) ==
    IF ForeignKeysHold(s.tx)
    THEN [s EXCEPT !.db = s.tx, !.commits = @ + 1]
    ELSE raise([s EXCEPT !.tx = s.db], "IntegrityError")

\* db.rollback()
rollback(s) == [s EXCEPT !.tx = s.db, !.rollbacks = @ + 1]

\* delete_all_user_codes committing whatever auto_commit says
delete_all_user_codes_committing(s, user_id, auto_commit) ==
    commit([s EXCEPT !.tx.verification_codes = {r \in @ : r.user_id # user_id}])

\* VerificationService.delete_all_user_codes(user_id, auto_commit)
delete_all_user_codes(s, user_id, auto_commit) ==
    LET deleted == [s EXCEPT !.tx.verification_codes = {r \in @ : r.user_id # user_id}]
    IN  IF auto_commit THEN commit(deleted) ELSE deleted

\* the keyword parameters of UserSearchHistoryService.reset_user_search_history(self,
\* user_id): a call with any other keyword raises TypeError
reset_user_search_history_keywords == {"user_id"}

\* UserSearchHistoryService.reset_user_search_history(user_id): deletes and commits
reset_user_search_history(s, user_id) ==
    commit([s EXCEPT !.tx.user_search_history = {r \in @ : r.user_id # user_id}])

\* UserFavouritesService.reset_user_favourites(user_id, auto_commit)
reset_user_favourites(s, user_id, auto_commit) ==
    LET deleted == [s EXCEPT !.tx.user_favourites = {r \in @ : r.user_id # user_id}]
    IN  IF auto_commit THEN commit(deleted) ELSE deleted

\* UserService.delete_user(user_id) on the committed rows; the statement numbered
\* fail_at (1 the codes, 2 the history, 3 the favourites, 4 the user, 5 the commit;
\* 0 for none) fails in the database with the exception fail_with.
\* The result: what was returned or raised, the rows then committed, the commits and
\* rollbacks issued.
delete_user(rows, user_id, fail_at, fail_with) ==
    LET s0 == Session(rows)
    IN  IF \A u \in rows.users : u.id # user_id
        THEN [returned |-> Some(FALSE), raised |-> None, orig |-> None, db |-> rows,
              commits |-> 0, rollbacks |-> 0]
        ELSE
        LET s1 == IF fail_at = 1 THEN raise(s0, fail_with)
                  ELSE delete_all_user_codes(s0, user_id, FALSE)
            s2 == IF s1.exc # None THEN s1
                  ELSE IF "auto_commit" \notin reset_user_search_history_keywords
                  THEN raise(s1, "TypeError")
                  ELSE IF fail_at = 2 THEN raise(s1, fail_with)
                  ELSE reset_user_search_history(s1, user_id)
            s3 == IF s2.exc # None THEN s2
                  ELSE IF fail_at = 3 THEN raise(s2, fail_with)
                  ELSE reset_user_favourites(s2, user_id, FALSE)
            s4 == IF s3.exc # None THEN s3
                  ELSE IF fail_at = 4 THEN raise(s3, fail_with)
                  ELSE [s3 EXCEPT !.tx.users = {u \in @ : u.id # user_id}]
            s5 == IF s4.exc # None THEN s4
                  ELSE IF fail_at = 5 THEN raise(s4, fail_with)
                  ELSE commit(s4)
        IN  IF s5.exc = None
            THEN [returned |-> Some(TRUE), raised |-> None, orig |-> None, db |-> s5.db,
                  commits |-> s5.commits, rollbacks |-> s5.rollbacks]
            ELSE [returned |-> None, raised |-> Some("IntegrityError"), orig |-> s5.exc,
                  db |-> rollback(s5).db, commits |-> s5.commits,
                  rollbacks |-> rollback(s5).rollbacks]

-----------------------------------------------------------------------------
(* app/services/verification_service.py, app/auth/auth_service.py            *)
(* Every method commits before it returns, so a method is applied to the     *)
(* committed rows and yields the rows committed after it.  Query.first()     *)
(* has no ORDER BY: it may return any of the matching rows, so a method that *)
(* uses it yields the set of its possible outcomes.                          *)

\* VerificationService._cleanup_expired_codes(user_id) at time t
_cleanup_expired_codes(rows, t, user_id) ==
    [rows EXCEPT !.verification_codes =
        {r \in @ : ~(r.user_id = user_id /\ r.expires_at < t)}]

\* the row with this id updated
UpdateCode(rows, id, field, value) ==
    [rows EXCEPT !.verification_codes =
        {IF r.id = id THEN [r EXCEPT ![field] = value] ELSE r : r \in @}]

\* VerificationService.generate_verification_code(user) at time t, when secrets.randbelow
\* draws code and the table gives the new row the key id
generate_verification_code(rows, t, id, code, user_id) ==
    LET cleaned == _cleanup_expired_codes(rows, t, user_id)
    IN  [cleaned EXCEPT !.verification_codes =
            @ \cup {VerificationCode(id, user_id, code, t + CODE_LIFETIME_MINUTES, 0, "N")}]

\* verify_verification_code that accepts a code and leaves it unused
verify_verification_code_leaving_unused(rows, t, code, user_id) ==
    LET cleaned == _cleanup_expired_codes(rows, t, user_id)
        matching == {r \in cleaned.verification_codes :
                        /\ r.user_id = user_id
                        /\ r.code = code
                        /\ r.used = "N"
                        /\ r.expires_at > t}
    IN  IF matching = {}
        THEN {[result |-> FALSE, row |-> 0, db |-> cleaned]}
        ELSE {IF r.attempts >= ATTEMPTS_LIMIT
              THEN [result |-> FALSE, row |-> r.id, db |-> UpdateCode(cleaned, r.id, "used", "Y")]
              ELSE [result |-> TRUE, row |-> r.id, db |-> cleaned]
              : r \in matching}

\* VerificationService.verify_verification_code(code, user) at time t: the possible
\* outcomes, each with the result, the key of the row first() returned (0 for none)
\* and the rows committed
verify_verification_code(rows, t, code, user_id) ==
    LET cleaned == _cleanup_expired_codes(rows, t, user_id)
        matching == {r \in cleaned.verification_codes :
                        /\ r.user_id = user_id
                        /\ r.code = code
                        /\ r.used = "N"
                        /\ r.expires_at > t}
    IN  IF matching = {}
        THEN {[result |-> FALSE, row |-> 0, db |-> cleaned]}
        ELSE {IF r.attempts >= ATTEMPTS_LIMIT
              THEN [result |-> FALSE, row |-> r.id, db |-> UpdateCode(cleaned, r.id, "used", "Y")]
              ELSE [result |-> TRUE, row |-> r.id, db |-> UpdateCode(cleaned, r.id, "used", "Y")]
              : r \in matching}

\* VerificationService.increment_attempts(code, user): the possible rows committed
increment_attempts(rows, code, user_id) ==
    LET matching == {r \in rows.verification_codes :
                        /\ r.user_id = user_id
                        /\ r.code = code
                        /\ r.used = "N"}
    IN  IF matching = {}
        THEN {rows}
        ELSE {UpdateCode(rows, r.id, "attempts", r.attempts + 1) : r \in matching}

\* UserService.get_user_by_email(email): the users found (email is unique)
get_user_by_email(rows, email) == {u \in rows.users : u.email = email}

\* AuthService.verify_verification_code(code, email) at time t: the possible outcomes,
\* each with the user returned (None for none), the key of the row accepted (0 for
\* none) and the rows committed
AuthService_verify_verification_code(rows, t, code, email) ==
    LET found == get_user_by_email(rows, email)
    IN  IF found = {} \/ (\A u \in found : u.role # "TEACHER")
        THEN {[returned |-> None, row |-> 0, db |-> rows]}
        ELSE LET user == CHOOSE u \in found : TRUE
             IN  UNION { IF o.result
                         THEN {[returned |-> Some(user.id), row |-> o.row, db |-> o.db]}
                         ELSE {[returned |-> None, row |-> 0, db |-> d]
                               : d \in increment_attempts(o.db, code, user.id)}
                         : o \in verify_verification_code(rows, t, code, user.id) }

-----------------------------------------------------------------------------
(* app/services/user_favourites_service.py *)

\* UserFavouritesService.is_activity_favourited(user_id, activity_id)
is_activity_favourited(rows, user_id, activity_id) ==
    \E r \in rows.user_favourites :
        /\ r.user_id = user_id
        /\ r.favourite_type = "activity"
        /\ r.activity_id = activity_id

\* the primary key the table gives the next row
NextFavouriteId(rows) ==
    LET ids == {r.id : r \in rows.user_favourites} \cup {0}
    IN  1 + CHOOSE m \in ids : \A i \in ids : i <= m

\* UserFavouritesService.save_activity_favourite(user_id, activity_id): add, commit
save_activity_favourite(rows, user_id, activity_id) ==
    [rows EXCEPT !.user_favourites =
        @ \cup {UserFavourites(NextFavouriteId(rows), user_id, "activity", activity_id)}]

-----------------------------------------------------------------------------
(* The inputs the specifications draw from *)

NoCriteria == SearchCriteria(None, None, None, None, None, None)

\* a fresh heap: no object carries a break
NoBreaks == [id \in 1..Len(Catalog) |-> None]

\* lists of distinct objects among the first NumActs of the catalogue, in any order
Collections ==
    UNION {{s \in [1..n -> 1..NumActs] : \A i, j \in 1..n : i # j => s[i] # s[j]} :
           n \in 0..NumActs}

\* criteria the pipeline is called with
PipelineCriteria ==
    { NoCriteria,
      SearchCriteria(Some(12), None, None, Some(30), None, None),
      SearchCriteria(Some(9), Some({"unplugged", "hybrid"}), Some({"understand", "apply"}),
                     None, Some({"handouts"}), Some({"patterns"})),
      SearchCriteria(None, Some({"hybrid"}), None, None, None, None) }

PipelinePriorities == { {}, {"duration_fit", "age_appropriateness"} }

Limits == -1..MaxLimit
Counts == 1..NumActs

-----------------------------------------------------------------------------
(* Spec: get_recommendations / RecommendationPipeline.process, run again and  *)
(* again on one activity collection.  pc names the statement to run next.    *)

Init ==
    /\ pc = "idle"
    /\ activities \in Collections
    /\ break_after = NoBreaks
    /\ criteria = NoCriteria
    /\ priority_categories = {}
    /\ include_breaks = FALSE
    /\ max_activity_count = 1
    /\ limit = 0
    /\ filtered_activities = <<>>
    /\ results = <<>>
    /\ returned = <<>>
    /\ break_before = NoBreaks
    /\ subject = Catalog[1]
    /\ out = <<>>
    /\ NoServices

\* get_recommendations(...): RecommendationPipeline.__init__
Call ==
    /\ pc = "idle"
    /\ \E c \in PipelineCriteria, p \in PipelinePriorities, b \in BOOLEAN,
          m \in Counts, l \in Limits :
          /\ criteria' = c
          /\ priority_categories' = p
          /\ include_breaks' = b
          /\ max_activity_count' = m
          /\ limit' = l
    /\ pc' = "filter"
    /\ filtered_activities' = <<>>
    /\ results' = <<>>
    /\ returned' = <<>>
    /\ break_before' = break_after
    /\ UNCHANGED <<activities, break_after, subject, out>>
    /\ UNCHANGED svcVars

\* filtered_activities = apply_hard_filters(activities, self.criteria)
Filter ==
    /\ pc = "filter"
    /\ filtered_activities' = apply_hard_filters(activities, criteria)
    /\ pc' = "score"
    /\ UNCHANGED <<activities, break_after, criteria, priority_categories, include_breaks,
                   max_activity_count, limit, results, returned, break_before, subject,
                   out>>
    /\ UNCHANGED svcVars

\* scored_results = ...; ranked_results = sorted(scored_results, ...)
ScoreAndRank ==
    /\ pc = "score"
    /\ results' = SortedByTotal(_score_all_activities_without_duration(
                      filtered_activities, break_after, criteria, priority_categories,
                      max_activity_count))
    /\ pc' = "add_breaks"
    /\ UNCHANGED <<activities, break_after, criteria, priority_categories, include_breaks,
                   max_activity_count, limit, filtered_activities, returned, break_before,
                   subject, out>>
    /\ UNCHANGED svcVars

\* results_with_breaks = self._add_breaks_if_requested(ranked_results)
AddBreaks ==
    /\ pc = "add_breaks"
    /\ break_after' = _add_breaks_if_requested(results, break_after, include_breaks)
    /\ pc' = "rescore"
    /\ UNCHANGED <<activities, criteria, priority_categories, include_breaks,
                   max_activity_count, limit, filtered_activities, results, returned,
                   break_before, subject, out>>
    /\ UNCHANGED svcVars

\* rescored_results = self._rescore_duration_and_rank(results_with_breaks)
RescoreAndRank ==
    /\ pc = "rescore"
    /\ results' = _rescore_duration_and_rank(results, break_after, criteria,
                                             priority_categories)
    /\ pc' = "return"
    /\ UNCHANGED <<activities, break_after, criteria, priority_categories, include_breaks,
                   max_activity_count, limit, filtered_activities, returned, break_before,
                   subject, out>>
    /\ UNCHANGED svcVars

\* return rescored_results[: self.limit]
Return ==
    /\ pc = "return"
    /\ returned' = SlicePrefix(results, limit)
    /\ pc' = "done"
    /\ UNCHANGED <<activities, break_after, criteria, priority_categories, include_breaks,
                   max_activity_count, limit, filtered_activities, results, break_before,
                   subject, out>>
    /\ UNCHANGED svcVars

\* the caller has consumed the list: the pipeline and its lists are discarded, the
\* caller's activity objects live on
Discard ==
    /\ pc = "done"
    /\ pc' = "idle"
    /\ criteria' = NoCriteria
    /\ priority_categories' = {}
    /\ include_breaks' = FALSE
    /\ max_activity_count' = 1
    /\ limit' = 0
    /\ filtered_activities' = <<>>
    /\ results' = <<>>
    /\ returned' = <<>>
    /\ break_before' = break_after
    /\ UNCHANGED <<activities, break_after, subject, out>>
    /\ UNCHANGED svcVars

Next ==
    Call \/ Filter \/ ScoreAndRank \/ AddBreaks \/ RescoreAndRank \/ Return \/ Discard

Spec == Init /\ [][Next]_vars

-----------------------------------------------------------------------------
(* SpecFilter: apply_hard_filters on a collection, and again on its own      *)
(* result, for criteria drawn field by field.                                 *)

FilterCriteria ==
    { SearchCriteria(age, format, bloom, duration, resources, topics) :
        age \in {None, Some(6), Some(12), Some(17)},
        format \in {None, Some({}), Some({"unplugged"}), Some({"digital", "hybrid"})},
        bloom \in {None, Some({}), Some({"apply"}), Some({"remember", "understand"})},
        duration \in {None, Some(10), Some(25)},
        resources \in {None, Some({}), Some({"handouts"}), Some({"computers", "tablets"})},
        topics \in {None, Some({}), Some({"patterns"}), Some({"algorithms", "abstraction"})} }

\* the variables of a pipeline call, idle in the unit specifications
callVars == <<priority_categories, include_breaks, max_activity_count, limit, results,
              returned, break_before>>

InitUnit ==
    /\ pc = "unit"
    /\ include_breaks = FALSE
    /\ max_activity_count = 1
    /\ limit = 0
    /\ filtered_activities = <<>>
    /\ results = <<>>
    /\ returned = <<>>
    /\ out = <<>>
    /\ NoServices

InitFilter ==
    /\ InitUnit
    /\ activities \in Collections
    /\ break_after = NoBreaks
    /\ break_before = NoBreaks
    /\ criteria \in FilterCriteria
    /\ priority_categories = {}
    /\ subject = Catalog[1]

\* filtered = apply_hard_filters(activities, criteria)
FilterOnce ==
    /\ pc = "unit"
    /\ filtered_activities' = apply_hard_filters(activities, criteria)
    /\ pc' = "filtered"
    /\ UNCHANGED <<activities, break_after, criteria, subject, out>>
    /\ UNCHANGED callVars
    /\ UNCHANGED svcVars

\* apply_hard_filters(filtered, criteria)
FilterAgain ==
    /\ pc = "filtered"
    /\ out' = apply_hard_filters(filtered_activities, criteria)
    /\ pc' = "refiltered"
    /\ UNCHANGED <<activities, break_after, criteria, subject, filtered_activities>>
    /\ UNCHANGED callVars
    /\ UNCHANGED svcVars

NextFilter == FilterOnce \/ FilterAgain

SpecFilter == InitFilter /\ [][NextFilter]_vars

-----------------------------------------------------------------------------
(* SpecScore: the four entry points of ScoringEngine on one activity list,    *)
(* whose objects carry no break or a 10-minute break each.                    *)

ScoreCriteria ==
    { SearchCriteria(age, None, bloom, duration, None, topics) :
        age \in {None, Some(9), Some(12), Some(16)},
        bloom \in {None, Some({}), Some({"apply"}), Some({"remember", "analyze"})},
        duration \in {None, Some(20), Some(30), Some(60)},
        topics \in {None, Some({}), Some({"patterns"}),
                    Some({"patterns", "algorithms", "abstraction"})} }

ScorePriorities ==
    { {}, {"age_appropriateness", "duration_fit"}, {"bloom_level_match", "topic_relevance"} }

EveryBreak ==
    [id \in 1..Len(Catalog) |->
        Some(Break(10, "Mental rest break after high cognitive load",
                   <<"Mental rest break after high cognitive load">>))]

InitScore ==
    /\ InitUnit
    /\ activities \in Collections \ {<<>>}
    /\ break_after \in {NoBreaks, EveryBreak}
    /\ break_before = break_after
    /\ criteria \in ScoreCriteria
    /\ priority_categories \in ScorePriorities
    /\ subject = Catalog[activities[1]]

unitFrame ==
    <<activities, break_after, criteria, subject, filtered_activities, callVars>>

\* ScoringEngine(priority_categories).score_activity(activities[0], criteria)
ScoreActivity ==
    /\ pc = "unit"
    /\ out' = score_activity(Obj(activities[1], break_after), criteria, priority_categories)
    /\ pc' = "score_activity"
    /\ UNCHANGED unitFrame
    /\ UNCHANGED svcVars

ScoreActivityWithoutDuration ==
    /\ pc = "unit"
    /\ out' = score_activity_without_duration(Obj(activities[1], break_after), criteria,
                                              priority_categories)
    /\ pc' = "score_activity_without_duration"
    /\ UNCHANGED unitFrame
    /\ UNCHANGED svcVars

\* ScoringEngine(priority_categories).score_sequence(activities, criteria)
ScoreSequence ==
    /\ pc = "unit"
    /\ out' = score_sequence(Objs(activities, break_after), criteria, priority_categories)
    /\ pc' = "score_sequence"
    /\ UNCHANGED unitFrame
    /\ UNCHANGED svcVars

ScoreSequenceWithoutDuration ==
    /\ pc = "unit"
    /\ out' = score_sequence_without_duration(Objs(activities, break_after), criteria,
                                              priority_categories)
    /\ pc' = "score_sequence_without_duration"
    /\ UNCHANGED unitFrame
    /\ UNCHANGED svcVars

NextScore ==
    ScoreActivity \/ ScoreActivityWithoutDuration \/ ScoreSequence
    \/ ScoreSequenceWithoutDuration

SpecScore == InitScore /\ [][NextScore]_vars

-----------------------------------------------------------------------------
(* SpecBloom: _score_bloom_level_match for every activity level and every     *)
(* list of criterion levels.                                                  *)

InitBloom ==
    /\ InitUnit
    /\ activities = <<1>>
    /\ break_after = NoBreaks
    /\ break_before = NoBreaks
    /\ subject \in {[Catalog[1] EXCEPT !.bloom_level = b] : b \in BloomLevel}
    /\ criteria \in {[NoCriteria EXCEPT !.bloom_levels = levels] :
                       levels \in {None} \cup {Some(l) : l \in SUBSET BloomLevel}}
    /\ priority_categories \in {{}, {"bloom_level_match"}}

ScoreBloom ==
    /\ pc = "unit"
    /\ out' = _score_bloom_level_match(subject, criteria, priority_categories)
    /\ pc' = "scored"
    /\ UNCHANGED unitFrame
    /\ UNCHANGED svcVars

NextBloom == ScoreBloom

SpecBloom == InitBloom /\ [][NextBloom]_vars

-----------------------------------------------------------------------------
(* SpecDuration: _score_duration_fit on lists of one or two activities whose  *)
(* durations and breaks are drawn freely, for every target up to MaxTarget.   *)

\* activities that differ in duration_min_minutes, duration_max_minutes and break_after
DurationSubjects ==
    { [Catalog[1] EXCEPT !.duration_min_minutes = lo, !.duration_max_minutes = hi,
                         !.break_after = b] :
        lo \in {0, 15, 33},
        hi \in {None, Some(0), Some(35)},
        b \in {None, Some(Break(10, "Mental rest break after high cognitive load",
                                 <<"Mental rest break after high cognitive load">>))} }

InitDuration ==
    /\ InitUnit
    /\ activities = <<>>
    /\ break_after = NoBreaks
    /\ break_before = NoBreaks
    /\ subject \in {<<a>> : a \in DurationSubjects}
                   \cup {<<a, b>> : a \in DurationSubjects, b \in DurationSubjects}
    /\ criteria \in {[NoCriteria EXCEPT !.target_duration = t] :
                       t \in {None} \cup {Some(d) : d \in 1..MaxTarget}}
    /\ priority_categories \in {{}, {"duration_fit"}}

\* ScoringEngine(priority_categories)._score_duration_fit(subject, criteria)
ScoreDuration ==
    /\ pc = "unit"
    /\ out' = _score_duration_fit(subject, criteria, priority_categories)
    /\ pc' = "duration_scored"
    /\ UNCHANGED unitFrame
    /\ UNCHANGED svcVars

NextDuration == ScoreDuration

SpecDuration == InitDuration /\ [][NextDuration]_vars

-----------------------------------------------------------------------------
(* SpecAge: _score_age_appropriateness for every age range within 6..MaxAge   *)
(* and every target age from 0 to 7 years past MaxAge.                        *)

TargetAges == 0..(MaxAge + 7)

InitAge ==
    /\ InitUnit
    /\ activities = <<1>>
    /\ break_after = NoBreaks
    /\ break_before = NoBreaks
    /\ \E lo \in 6..MaxAge : \E hi \in lo..MaxAge :
          subject = [Catalog[1] EXCEPT !.age_min = lo, !.age_max = hi]
    /\ criteria \in {[NoCriteria EXCEPT !.target_age = t] :
                       t \in {None} \cup {Some(a) : a \in TargetAges}}
    /\ priority_categories \in {{}, {"age_appropriateness"}}

\* ScoringEngine(priority_categories)._score_age_appropriateness(subject, criteria)
ScoreAge ==
    /\ pc = "unit"
    /\ out' = _score_age_appropriateness(subject, criteria, priority_categories)
    /\ pc' = "age_scored"
    /\ UNCHANGED unitFrame
    /\ UNCHANGED svcVars

NextAge == ScoreAge

SpecAge == InitAge /\ [][NextAge]_vars

-----------------------------------------------------------------------------
(* SpecCohesion: _score_series_cohesion_category on lists of up to MaxPlan    *)
(* activities that differ in topics and Bloom level.                          *)

CohesionSubjects ==
    { [Catalog[1] EXCEPT !.topics = ts, !.bloom_level = b] :
        ts \in { {}, {"patterns"}, {"patterns", "algorithms"},
                 {"algorithms", "abstraction", "decomposition"} },
        b \in {"remember", "apply", "create"} }

InitCohesion ==
    /\ InitUnit
    /\ activities = <<>>
    /\ break_after = NoBreaks
    /\ break_before = NoBreaks
    /\ subject \in UNION {[1..n -> CohesionSubjects] : n \in 1..MaxPlan}
    /\ criteria = NoCriteria
    /\ priority_categories = {}

\* ScoringEngine()._score_series_cohesion_category(subject)
ScoreCohesion ==
    /\ pc = "unit"
    /\ out' = _score_series_cohesion_category(subject)
    /\ pc' = "cohesion_scored"
    /\ UNCHANGED unitFrame
    /\ UNCHANGED svcVars

NextCohesion == ScoreCohesion

SpecCohesion == InitCohesion /\ [][NextCohesion]_vars

-----------------------------------------------------------------------------
(* SpecBreaks: _assign_breaks_to_activities on a list of 2..MaxPlan distinct   *)
(* hand-made objects of the catalogue, none of which carries a break.          *)

BreakPlans ==
    UNION {{s \in [1..n -> 1..Len(HandMade)] : \A i, j \in 1..n : i # j => s[i] # s[j]} :
           n \in 2..MaxPlan}

InitBreaks ==
    /\ InitUnit
    /\ activities \in BreakPlans
    /\ break_after = NoBreaks
    /\ break_before = NoBreaks
    /\ criteria = NoCriteria
    /\ priority_categories = {}
    /\ subject = Catalog[1]

\* self._assign_breaks_to_activities(activities)
AssignBreaks ==
    /\ pc = "unit"
    /\ break_after' = _assign_breaks_to_activities(activities, break_after)
    /\ pc' = "breaks_assigned"
    /\ UNCHANGED <<activities, criteria, subject, filtered_activities, out>>
    /\ UNCHANGED callVars
    /\ UNCHANGED svcVars

NextBreaks == AssignBreaks

SpecBreaks == InitBreaks /\ [][NextBreaks]_vars

-----------------------------------------------------------------------------
(* SpecPool: the filter followed by _score_all_activities_without_duration,   *)
(* on collections of up to MaxPool objects with max_activity_count up to      *)
(* MaxCount.  Collections longer than SmallPool are given a max_activity_count *)
(* of at most 2, which keeps the number of lesson plans scored in one step     *)
(* in the hundreds.                                                            *)

PoolCriteria ==
    { NoCriteria, [NoCriteria EXCEPT !.format = Some({"unplugged", "hybrid"})] }

InitPool ==
    /\ pc = "unit"
    /\ \E n \in 0..MaxPool :
          activities \in {[i \in 1..n |-> i], [i \in 1..n |-> n + 1 - i]}
    /\ max_activity_count \in 0..MaxCount
    /\ Len(activities) <= SmallPool \/ max_activity_count <= 2
    /\ criteria \in PoolCriteria
    /\ priority_categories = {}
    /\ include_breaks = FALSE
    /\ limit = 0
    /\ break_after = NoBreaks
    /\ break_before = NoBreaks
    /\ filtered_activities = <<>>
    /\ results = <<>>
    /\ returned = <<>>
    /\ subject = Catalog[1]
    /\ out = <<>>
    /\ NoServices

\* filtered_activities = apply_hard_filters(activities, self.criteria)
\* scored_results = self._score_all_activities_without_duration(filtered_activities)
GenerateCandidates ==
    /\ pc = "unit"
    /\ filtered_activities' = apply_hard_filters(activities, criteria)
    /\ results' = _score_all_activities_without_duration(
                      apply_hard_filters(activities, criteria), break_after, criteria,
                      priority_categories, max_activity_count)
    /\ pc' = "pooled"
    /\ UNCHANGED <<activities, break_after, criteria, priority_categories, include_breaks,
                   max_activity_count, limit, returned, break_before, subject, out>>
    /\ UNCHANGED svcVars

NextPool == GenerateCandidates

SpecPool == InitPool /\ [][NextPool]_vars

-----------------------------------------------------------------------------
(* SpecAgeFilter: process on a collection of the one activity under test,    *)
(* for every age range and target age: the filter, then the score.           *)

\* process([subject]) with a limit of 1 or more: the scores of the returned candidates
FilterThenScoreAge ==
    /\ pc = "unit"
    /\ out' = IF passes_hard_filters(subject, criteria)
              THEN <<score_activity(subject, criteria, priority_categories)>>
              ELSE <<>>
    /\ pc' = "age_filtered"
    /\ UNCHANGED unitFrame
    /\ UNCHANGED svcVars

NextAgeFilter == FilterThenScoreAge

SpecAgeFilter == InitAge /\ [][NextAgeFilter]_vars

-----------------------------------------------------------------------------
(* SpecTransport: one request to the recommendations endpoint, on whatever   *)
(* the engine returned, or one request to the lesson-plan endpoint, on        *)
(* whatever body the client sent.                                             *)

\* the candidates the engine can return here: the first n objects, n = 1..MaxPlan
TransportPlans == {[i \in 1..n |-> i] : n \in 1..MaxPlan}

\* what an object of a returned candidate may hold
EngineBreaks ==
    { None, Some(Break(10, "Mental rest break after high cognitive load",
                       <<"Mental rest break after high cognitive load">>)) }

\* break_after of the activity dict at position idx of a request body
BodyBreak(idx, kind) ==
    CASE kind = "absent" -> None
      [] kind = "empty"  -> Some(<<>>)
      [] kind = "break"  -> Some([duration |-> 5 * idx,
                                  description |-> "after " \o ToString(idx)])

\* the breaks a request body gives directly
GivenBreaks(n) ==
    [k \in 1..n |-> [duration |-> 10, description |-> "given " \o ToString(k)]]

InitTransport ==
    /\ include_breaks = FALSE
    /\ max_activity_count = 1
    /\ limit = 0
    /\ filtered_activities = <<>>
    /\ results = <<>>
    /\ out = <<>>
    /\ criteria = NoCriteria
    /\ priority_categories = {}
    /\ break_before = NoBreaks
    /\ \/ /\ pc = "recommendations_request"
          /\ \E held \in [1..MaxPlan -> EngineBreaks] :
                break_after = [id \in 1..Len(Catalog) |->
                                  IF id <= MaxPlan THEN held[id] ELSE None]
          /\ \E plans \in UNION {[1..n -> TransportPlans] : n \in 0..MaxLimit} :
                returned = [i \in 1..Len(plans) |->
                               Result(plans[i],
                                      IF Len(plans[i]) = 1
                                      THEN score_activity(Obj(plans[i][1], break_after),
                                                          criteria, priority_categories)
                                      ELSE score_sequence(Objs(plans[i], break_after),
                                                          criteria, priority_categories))]
          /\ activities = <<>>
          /\ subject = Catalog[1]
       \/ /\ pc = "lesson_plan_request"
          /\ break_after = NoBreaks
          /\ returned = <<>>
          /\ activities = <<>>
          /\ \E n \in 1..MaxPlan :
                \E kinds \in [1..n -> {"absent", "empty", "break"}] :
                   \E given \in -1..(MaxPlan + 1) :
                      subject = [activities |->
                                    [idx \in 1..n |->
                                        [id |-> idx,
                                         break_after |-> BodyBreak(idx, kinds[idx])]],
                                 breaks |-> IF given < 0 THEN None
                                            ELSE Some(GivenBreaks(given))]
    /\ NoServices

\* GET /api/activities/recommendations, from the engine's return to the response data
GetRecommendations ==
    /\ pc = "recommendations_request"
    /\ out' = [activities |-> recommendations_data(returned, break_after),
               total      |-> Len(returned)]
    /\ pc' = "responded"
    /\ UNCHANGED unitFrame
    /\ UNCHANGED svcVars

\* POST /api/activities/lesson-plan: the PDF generator is called with the breaks, or
\* the request is refused when no PDF is available for the activities
GenerateLessonPlan ==
    /\ pc = "lesson_plan_request"
    /\ \E can_generate_lesson_plan \in BOOLEAN :
          IF can_generate_lesson_plan
          THEN /\ out' = [activities |-> subject.activities,
                          breaks     |-> lesson_plan_breaks(subject)]
               /\ pc' = "pdf_generated"
          ELSE /\ out' = [error |-> "No PDFs available for the selected activities"]
               /\ pc' = "refused"
    /\ UNCHANGED unitFrame
    /\ UNCHANGED svcVars

NextTransport == GetRecommendations \/ GenerateLessonPlan

SpecTransport == InitTransport /\ [][NextTransport]_vars

-----------------------------------------------------------------------------
(* SpecDelete: one call of UserService.delete_user, on a database of up to  *)
(* MaxUsers users with their codes, search history and favourites, with and *)
(* without a database failure at one of its statements.                      *)

\* the core stands still while the services run
NoCore ==
    /\ pc = "services"
    /\ activities = <<>>
    /\ break_after = NoBreaks
    /\ criteria = NoCriteria
    /\ priority_categories = {}
    /\ include_breaks = FALSE
    /\ max_activity_count = 1
    /\ limit = 0
    /\ filtered_activities = <<>>
    /\ results = <<>>
    /\ returned = <<>>
    /\ break_before = NoBreaks
    /\ subject = Catalog[1]
    /\ out = <<>>

UserIds == 1..MaxUsers

\* user 1 is a teacher, the others are admins
TheUser(id) ==
    User(id, "user" \o ToString(id) \o "@school.org", IF id = 1 THEN "TEACHER" ELSE "ADMIN")

\* the databases a deletion runs on: rows exist only for users that exist; a user has
\* up to two codes (one expired at minute 10, one not), one history entry, one favourite
DeleteDatabases ==
    { Tables({TheUser(u) : u \in users}, codes, history, favourites) :
        users \in SUBSET UserIds,
        codes \in SUBSET ({VerificationCode(2 * u - 1, u, "000001", 0, 0, "N") : u \in UserIds}
                          \cup {VerificationCode(2 * u, u, "000002", 20, 1, "N") : u \in UserIds}),
        history \in SUBSET {UserSearchHistory(u, u) : u \in UserIds},
        favourites \in SUBSET {UserFavourites(u, u, "activity", 7) : u \in UserIds} }

InitDelete ==
    /\ NoCore
    /\ now = 10
    /\ accepted = <<>>
    /\ db \in {rows \in DeleteDatabases : ForeignKeysHold(rows)}
    /\ \E user_id \in UserIds, fail_at \in 0..5,
          fail_with \in {"IntegrityError", "OperationalError"} :
          req = <<[op |-> "delete_user", user_id |-> user_id, fail_at |-> fail_at,
                   fail_with |-> fail_with, state |-> "called", before |-> db,
                   result |-> <<>>]>>

\* UserService(db).delete_user(user_id)
DeleteUser ==
    /\ req[1].state = "called"
    /\ LET result == delete_user(db, req[1].user_id, req[1].fail_at, req[1].fail_with)
       IN  /\ db' = result.db
           /\ req' = <<[req[1] EXCEPT !.state = "done", !.result = result]>>
    /\ UNCHANGED <<now, accepted>>
    /\ UNCHANGED coreVars

NextDelete == DeleteUser

SpecDelete == InitDelete /\ [][NextDelete]_vars

-----------------------------------------------------------------------------
(* SpecVerify: the calls of VerificationService and of                      *)
(* AuthService.verify_verification_code, one after another, while the clock *)
(* advances.  req holds the last call; accepted counts, per code row ever    *)
(* generated, the calls that accepted it.                                    *)

\* the six-digit codes secrets.randbelow draws here
CodeValues == {"000001", "000002"}

\* the clock advances in steps of five minutes
ClockStep == 5

\* the accounts: a teacher and an admin
Accounts == {TheUser(1), TheUser(2)}

Emails == {u.email : u \in Accounts} \cup {"nobody@school.org"}

InitVerify ==
    /\ NoCore
    /\ now = 0
    /\ db = Tables(Accounts, {}, {}, {})
    /\ req = <<>>
    /\ accepted = <<>>

\* the call just made: its name, its arguments, its result and the row it took
Called(op, user_id, code, result, row) ==
    <<[op |-> op, user_id |-> user_id, code |-> code, result |-> result, row |-> row,
       state |-> "done"]>>

\* no row counts more attempts than the model follows
AttemptsInBound(rows) == \A r \in rows.verification_codes : r.attempts <= MaxAttempts

\* one more acceptance of the row with this key
Accept(id) == IF id = 0 THEN accepted ELSE [accepted EXCEPT ![id] = @ + 1]

\* datetime.now(UTC) moves on
Tick ==
    /\ now + ClockStep <= MaxTime
    /\ now' = now + ClockStep
    /\ UNCHANGED <<db, req, accepted>>
    /\ UNCHANGED coreVars

\* VerificationService(db).generate_verification_code(user)
GenerateCode ==
    /\ Len(accepted) < MaxCodes
    /\ \E user \in db.users, code \in CodeValues :
          /\ db' = generate_verification_code(db, now, Len(accepted) + 1, code, user.id)
          /\ req' = Called("generate_verification_code", user.id, code, TRUE, Len(accepted) + 1)
    /\ accepted' = Append(accepted, 0)
    /\ UNCHANGED now
    /\ UNCHANGED coreVars

\* VerificationService(db).verify_verification_code(code, user)
VerifyCode ==
    /\ \E user \in db.users, code \in CodeValues :
         \E o \in verify_verification_code(db, now, code, user.id) :
            /\ db' = o.db
            /\ req' = Called("verify_verification_code", user.id, code, o.result, o.row)
            /\ accepted' = IF o.result THEN Accept(o.row) ELSE accepted
    /\ UNCHANGED now
    /\ UNCHANGED coreVars

\* VerificationService(db).increment_attempts(code, user)
IncrementAttempts ==
    /\ \E user \in db.users, code \in CodeValues :
         \E d \in increment_attempts(db, code, user.id) :
            /\ AttemptsInBound(d)
            /\ db' = d
            /\ req' = Called("increment_attempts", user.id, code, TRUE, 0)
    /\ UNCHANGED <<now, accepted>>
    /\ UNCHANGED coreVars

\* AuthService(user_service, db).verify_verification_code(code, email)
AuthVerifyCode ==
    /\ \E email \in Emails, code \in CodeValues :
         \E o \in AuthService_verify_verification_code(db, now, code, email) :
            /\ AttemptsInBound(o.db)
            /\ db' = o.db
            /\ req' = <<[op |-> "AuthService.verify_verification_code", email |-> email,
                         code |-> code, result |-> o.returned # None, row |-> o.row,
                         state |-> "done"]>>
            /\ accepted' = Accept(o.row)
    /\ UNCHANGED now
    /\ UNCHANGED coreVars

NextVerify ==
    \/ Tick
    \/ GenerateCode
    \/ VerifyCode
    \/ IncrementAttempts
    \/ AuthVerifyCode

SpecVerify == InitVerify /\ [][NextVerify]_vars

-----------------------------------------------------------------------------
(* SpecVerifyRace: two requests to POST /api/auth/verify served at the same  *)
(* time, each by its own thread with its own session (scoped_session).  A    *)
(* request advances one database statement at a time: the clean-up of the    *)
(* expired codes, the query for the code, the update that marks it used; on  *)
(* a failed verification the query and the update of increment_attempts.     *)
(* Nothing locks the row between the query and the update (no FOR UPDATE, no *)
(* version column), so the steps of the two requests interleave freely.      *)

Requests == {1, 2}

\* the code rows the race starts from: per key at most one row, of the teacher or the
\* admin, expired, expiring now or live, with no attempts or with the limit reached
RaceCodes ==
    LET RowsWithKey(id) ==
            {VerificationCode(id, u.id, code, expires_at, attempts, "N") :
                u \in Accounts, code \in CodeValues, expires_at \in {0, 10, 20},
                attempts \in {0, ATTEMPTS_LIMIT}}
    IN  {held \in SUBSET UNION {RowsWithKey(id) : id \in 1..MaxCodes} :
            \A r, q \in held : r.id = q.id => r = q}

\* a request at its first statement
Request(email, code) ==
    [op |-> "verify_code", email |-> email, code |-> code, state |-> "start",
     user_id |-> 0, row |-> <<>>, result |-> FALSE]

InitVerifyRace ==
    /\ NoCore
    /\ now = 10
    /\ \E held \in RaceCodes : db = Tables(Accounts, held, {}, {})
    /\ \E e1, e2 \in Emails, c1, c2 \in CodeValues :
          req = <<Request(e1, c1), Request(e2, c2)>>
    /\ accepted = [id \in 1..MaxCodes |-> 0]

\* AuthService.verify_verification_code: get_user_by_email, the role test, and
\* _cleanup_expired_codes with its commit
VerifyStart(p) ==
    /\ req[p].state = "start"
    /\ LET found == get_user_by_email(db, req[p].email)
       IN  IF found = {} \/ (\A u \in found : u.role # "TEACHER")
           THEN /\ req' = [req EXCEPT ![p].state = "done"]
                /\ UNCHANGED db
           ELSE LET user == CHOOSE u \in found : TRUE
                IN  /\ db' = _cleanup_expired_codes(db, now, user.id)
                    /\ req' = [req EXCEPT ![p].state = "query", ![p].user_id = user.id]
    /\ UNCHANGED <<now, accepted>>
    /\ UNCHANGED coreVars

\* verify_verification_code: the query with first(); the row is loaded into the session
VerifyQuery(p) ==
    /\ req[p].state = "query"
    /\ LET matching == {r \in db.verification_codes :
                           /\ r.user_id = req[p].user_id
                           /\ r.code = req[p].code
                           /\ r.used = "N"
                           /\ r.expires_at > now}
       IN  IF matching = {}
           THEN req' = [req EXCEPT ![p].state = "increment_query"]
           ELSE \E r \in matching : req' = [req EXCEPT ![p].state = "mark", ![p].row = <<r>>]
    /\ UNCHANGED <<db, now, accepted>>
    /\ UNCHANGED coreVars

\* verify_verification_code: the attempts test on the loaded row, used = "Y", commit
VerifyMark(p) ==
    /\ req[p].state = "mark"
    /\ LET verification_code == req[p].row[1]
       IN  /\ db' = UpdateCode(db, verification_code.id, "used", "Y")
           /\ IF verification_code.attempts >= ATTEMPTS_LIMIT
              THEN /\ req' = [req EXCEPT ![p].state = "increment_query", ![p].row = <<>>]
                   /\ UNCHANGED accepted
              ELSE /\ req' = [req EXCEPT ![p].state = "done", ![p].result = TRUE]
                   /\ accepted' = Accept(verification_code.id)
    /\ UNCHANGED now
    /\ UNCHANGED coreVars

\* increment_attempts: the query with first()
IncrementQuery(p) ==
    /\ req[p].state = "increment_query"
    /\ LET matching == {r \in db.verification_codes :
                           /\ r.user_id = req[p].user_id
                           /\ r.code = req[p].code
                           /\ r.used = "N"}
       IN  IF matching = {}
           THEN req' = [req EXCEPT ![p].state = "done"]
           ELSE \E r \in matching :
                   req' = [req EXCEPT ![p].state = "increment_update", ![p].row = <<r>>]
    /\ UNCHANGED <<db, now, accepted>>
    /\ UNCHANGED coreVars

\* increment_attempts: attempts += 1 on the loaded row, commit
IncrementUpdate(p) ==
    /\ req[p].state = "increment_update"
    /\ db' = UpdateCode(db, req[p].row[1].id, "attempts", req[p].row[1].attempts + 1)
    /\ req' = [req EXCEPT ![p].state = "done"]
    /\ UNCHANGED <<now, accepted>>
    /\ UNCHANGED coreVars

NextVerifyRace ==
    \/ \E p \in Requests : VerifyStart(p)
    \/ \E p \in Requests : VerifyQuery(p)
    \/ \E p \in Requests : VerifyMark(p)
    \/ \E p \in Requests : IncrementQuery(p)
    \/ \E p \in Requests : IncrementUpdate(p)

SpecVerifyRace == InitVerifyRace /\ [][NextVerifyRace]_vars

-----------------------------------------------------------------------------
(* SpecFavourites: two requests to POST /api/history/favourites/activities, *)
(* one after the other or at the same time, each by its own thread with its *)
(* own session.  A request advances one database statement at a time: the   *)
(* query of is_activity_favourited, then the insert with its commit.  The   *)
(* table has no unique constraint on (user_id, favourite_type, activity_id).*)

\* the activities a request may name
FavouriteActivityIds == {7, 8}

\* the favourites the table holds before the requests: at most one per user and activity
StoredFavourites ==
    SUBSET {UserFavourites(2 * (u.id - 1) + (a - 6), u.id, "activity", a) :
                u \in Accounts, a \in FavouriteActivityIds}

InitFavourites ==
    /\ NoCore
    /\ now = 0
    /\ accepted = <<>>
    /\ \E stored \in StoredFavourites : db = Tables(Accounts, {}, {}, stored)
    /\ \E u1, u2 \in Accounts, a1, a2 \in FavouriteActivityIds :
          req = <<[op |-> "save_activity_favourite", user_id |-> u1.id, activity_id |-> a1,
                   state |-> "check", status |-> 0, favourite_id |-> 0],
                  [op |-> "save_activity_favourite", user_id |-> u2.id, activity_id |-> a2,
                   state |-> "check", status |-> 0, favourite_id |-> 0]>>

\* save_activity_favourite (endpoint): the check, answering 409 when already favourited
CheckFavourited(p) ==
    /\ req[p].state = "check"
    /\ IF is_activity_favourited(db, req[p].user_id, req[p].activity_id)
       THEN req' = [req EXCEPT ![p].state = "done", ![p].status = 409]
       ELSE req' = [req EXCEPT ![p].state = "save"]
    /\ UNCHANGED <<db, now, accepted>>
    /\ UNCHANGED coreVars

\* save_activity_favourite (endpoint): the insert and the 200 response
SaveFavourite(p) ==
    /\ req[p].state = "save"
    /\ db' = save_activity_favourite(db, req[p].user_id, req[p].activity_id)
    /\ req' = [req EXCEPT ![p].state = "done", ![p].status = 200,
                          ![p].favourite_id = NextFavouriteId(db)]
    /\ UNCHANGED <<now, accepted>>
    /\ UNCHANGED coreVars

NextFavourites ==
    \/ \E p \in Requests : CheckFavourited(p)
    \/ \E p \in Requests : SaveFavourite(p)

SpecFavourites == InitFavourites /\ [][NextFavourites]_vars

-----------------------------------------------------------------------------
(* Properties of the pipeline (Spec) *)

\* the candidates of two or more activities in the list a finished call returned
ReturnedPlans == {i \in 1..Len(returned) : Len(returned[i].activities) >= 2}

\* C1: with include_breaks = true, the last activity of every returned candidate of
\* two or more activities has break_after absent (None).
NoTrailingBreak ==
    (pc = "done" /\ include_breaks) =>
        \A i \in ReturnedPlans :
            LET plan == returned[i].activities
            IN  IsNone(break_after[plan[Len(plan)]])

\* C2: with include_breaks = true, every non-final activity of a returned candidate
\* carries the break of its own consecutive pair: cleanup time, plus 10 for a high
\* mental load, plus 5 for a high physical energy, plus 5 when the next activity of
\* the same candidate has another format, rounded up to a multiple of 5; and no
\* break at all when none of these applies.
BreakOfOwnPair ==
    (pc = "done" /\ include_breaks) =>
        \A i \in ReturnedPlans :
            LET plan == returned[i].activities
            IN  \A k \in 1..(Len(plan) - 1) :
                    LET a     == Catalog[plan[k]]
                        next  == Catalog[plan[k + 1]]
                        total == (IF IsNone(a.cleanup_time_minutes) THEN 0
                                  ELSE a.cleanup_time_minutes[1])
                                 + (IF a.mental_load = Some("high") THEN 10 ELSE 0)
                                 + (IF a.physical_energy = Some("high") THEN 5 ELSE 0)
                                 + (IF a.format # next.format THEN 5 ELSE 0)
                        held  == break_after[plan[k]]
                    IN  IF total = 0 THEN IsNone(held)
                        ELSE /\ ~IsNone(held)
                             /\ held[1].duration = ((total + 4) \div 5) * 5

\* C3: process never mutates the caller's activities: when a call has returned, every
\* object of the collection has the break_after it had when the call started.
ProcessLeavesActivitiesUnchanged ==
    pc = "done" => \A i \in 1..Len(activities) :
                       break_after[activities[i]] = break_before[activities[i]]

\* what process returns for the inputs of the current call on objects no earlier call
\* has touched
FreshReturn ==
    LET filtered == apply_hard_filters(activities, criteria)
        ranked   == SortedByTotal(_score_all_activities_without_duration(
                        filtered, NoBreaks, criteria, priority_categories,
                        max_activity_count))
        heap     == _add_breaks_if_requested(ranked, NoBreaks, include_breaks)
    IN  SlicePrefix(_rescore_duration_and_rank(ranked, heap, criteria,
                                               priority_categories), limit)

\* C4: no cross-call state: a call returns the same candidates with the same category
\* and total scores whatever calls were made on the collection before it.
NoCrossCallState ==
    pc = "done" => returned = FreshReturn

\* C5 as stated: for every limit, the returned list has at most limit entries.
LimitRespected ==
    pc = "done" => Len(returned) <= limit

\* C5 as amended: for every limit >= 0, the returned list has at most limit entries.
LimitRespectedWhenNonNegative ==
    (pc = "done" /\ limit >= 0) => Len(returned) <= limit

\* a call whose ranked pool was longer than its positive limit, and was cut to it
LimitCutsThePool ==
    /\ pc = "done"
    /\ limit >= 1
    /\ Len(results) > limit
    /\ Len(returned) = limit

\* what process returns for the inputs of the current call with the priority set prio,
\* on the objects as they were when the call started
ProcessWithPriorities(prio) ==
    LET filtered == apply_hard_filters(activities, criteria)
        ranked   == SortedByTotal(_score_all_activities_without_duration(
                        filtered, break_before, criteria, prio, max_activity_count))
        heap     == _add_breaks_if_requested(ranked, break_before, include_breaks)
    IN  SlicePrefix(_rescore_duration_and_rank(ranked, heap, criteria, prio), limit)

\* a returned list with everything that reports the priority set blanked
WithoutPriorityFlags(list) ==
    [i \in 1..Len(list) |->
        [activities |-> list[i].activities,
         score |-> [list[i].score EXCEPT
                       !.priority_categories = {},
                       !.category_scores =
                           [n \in DOMAIN list[i].score.category_scores |->
                               [list[i].score.category_scores[n] EXCEPT
                                   !.priority_multiplier = 1, !.is_priority = FALSE]]]]]

\* C11: the total ignores priority: every returned total_score is
\* floor(sum(score x impact) / sum(impact)) over the categories present, and the call
\* returns the same candidates in the same order with the same total and category
\* scores as it would with any other priority set; only priority_multiplier and
\* is_priority (and the echoed priority set) may differ.
TotalIgnoresPriority ==
    pc = "done" =>
        /\ \A i \in 1..Len(returned) :
              LET cs    == returned[i].score.category_scores
                  names == DOMAIN cs
              IN  returned[i].score.total_score =
                      SumOver([n \in names |-> cs[n].score * cs[n].impact], names)
                          \div SumOver([n \in names |-> cs[n].impact], names)
        /\ \A prio \in PipelinePriorities \ {priority_categories} :
              WithoutPriorityFlags(returned)
                  = WithoutPriorityFlags(ProcessWithPriorities(prio))

\* a call with priority categories that returns two or more candidates, one of them
\* flagged as priority in a category whose score differs from another category's
PriorityCallReturnsUnevenScores ==
    /\ pc = "done"
    /\ priority_categories # {}
    /\ Len(returned) >= 2
    /\ \E i \in 1..Len(returned) :
          LET cs == returned[i].score.category_scores
          IN  \E n, m \in DOMAIN cs : cs[n].is_priority /\ ~cs[m].is_priority
                                        /\ cs[n].score > cs[m].score

-----------------------------------------------------------------------------
(* Properties of the scoring engine (SpecScore, SpecBloom) *)

Scored ==
    pc \in {"score_activity", "score_activity_without_duration", "score_sequence",
            "score_sequence_without_duration"}

\* C6: every CategoryScore.score and every ScoreModel.total_score produced by the four
\* scoring entry points is an integer in [0, 100].
ScoresBounded ==
    Scored =>
        /\ out.total_score \in 0..100
        /\ \A n \in DOMAIN out.category_scores : out.category_scores[n].score \in 0..100

\* a sequence score with a category at 100, a category at 0 and a total in between
ScoresSpanTheRange ==
    /\ pc = "score_sequence"
    /\ Len(activities) >= 2
    /\ \E n \in DOMAIN out.category_scores : out.category_scores[n].score = 100
    /\ \E n \in DOMAIN out.category_scores : out.category_scores[n].score = 0
    /\ out.total_score \in 1..99

PriorityFlagsFollowPrioritySet ==
    pc \in {"score_activity", "score_sequence"} =>
        \A n \in {"age_appropriateness", "bloom_level_match", "topic_relevance",
                  "duration_fit"} :
            LET cs == out.category_scores[n]
            IN  /\ cs.is_priority = (n \in priority_categories)
                /\ cs.priority_multiplier = (IF n \in priority_categories THEN 2 ELSE 1)

\* the category scores that score_activity gives each member of the sequence
MemberScores ==
    [i \in 1..Len(activities) |->
        score_activity(Obj(activities[i], break_after), criteria,
                       priority_categories).category_scores]

\* C26: score_sequence sets each of age_appropriateness, bloom_level_match and
\* topic_relevance to the integer-truncated mean of the members' single-activity
\* scores (so between their minimum and maximum); series_cohesion and duration_fit are
\* computed once on the whole sequence; score_sequence_without_duration yields the
\* same category scores (the same means of the same members, the same cohesion) minus
\* duration_fit.
SequenceAveragesMembers ==
    pc \in {"score_sequence", "score_sequence_without_duration"} =>
        LET acts    == Objs(activities, break_after)
            members == MemberScores
        IN  /\ \A name \in {"age_appropriateness", "bloom_level_match",
                            "topic_relevance"} :
                  LET member == [i \in 1..Len(members) |-> members[i][name].score]
                      mean   == SumSeq(member) \div Len(member)
                  IN  /\ out.category_scores[name]
                            = CategoryScore(name, mean, SCORING_CATEGORIES[name],
                                            PriorityMultiplier(name, priority_categories),
                                            IsPriority(name, priority_categories))
                      /\ \E i \in 1..Len(member) : member[i] <= mean
                      /\ \E i \in 1..Len(member) : mean <= member[i]
            /\ out.category_scores["series_cohesion"]
                  = _score_series_cohesion_category(acts)
            /\ IF pc = "score_sequence"
               THEN /\ DOMAIN out.category_scores
                          = {"age_appropriateness", "bloom_level_match",
                             "topic_relevance", "series_cohesion", "duration_fit"}
                    /\ out.category_scores["duration_fit"]
                          = _score_duration_fit(acts, criteria, priority_categories)
               ELSE DOMAIN out.category_scores
                       = {"age_appropriateness", "bloom_level_match", "topic_relevance",
                          "series_cohesion"}

\* a sequence of unlike members: the age score is a mean strictly between two members'
\* scores, and the duration fit of the whole is not the mean of the members' fits
SequenceOfUnlikeMembers ==
    /\ pc = "score_sequence"
    /\ Len(activities) >= 2
    /\ LET members == MemberScores
       IN  /\ \E i, j \in 1..Len(members) :
                 /\ members[i]["age_appropriateness"].score
                       < out.category_scores["age_appropriateness"].score
                 /\ out.category_scores["age_appropriateness"].score
                       < members[j]["age_appropriateness"].score
           /\ out.category_scores["duration_fit"].score
                 # SumSeq([i \in 1..Len(members) |-> members[i]["duration_fit"].score])
                       \div Len(members)

-----------------------------------------------------------------------------
(* Properties of the pipeline (Spec), continued *)

\* the duration-inclusive score of a candidate, from its activities as they are now
FinalScore(plan) ==
    IF Len(plan) = 1
    THEN score_activity(Obj(plan[1], break_after), criteria, priority_categories)
    ELSE score_sequence(Objs(plan, break_after), criteria, priority_categories)

\* the candidates generated for the survivors of the current call
GeneratedPool ==
    LET pool == _score_all_activities_without_duration(
                    filtered_activities, break_after, criteria, priority_categories,
                    max_activity_count)
    IN  [i \in 1..Len(pool) |-> pool[i].activities]

\* the re-ranked pool holds every generated candidate with its final score; the
\* returned list is a prefix of it, sorted on these scores, so nothing left out scores
\* higher than anything returned
RankedOnFinalScores ==
    LET pool == GeneratedPool
    IN  /\ Len(results) = Len(pool)
        /\ {results[i].activities : i \in 1..Len(results)} = {pool[i] : i \in 1..Len(pool)}
        /\ \A i \in 1..Len(results) : results[i].score = FinalScore(results[i].activities)
        /\ Len(returned) <= Len(results)
        /\ \A i \in 1..Len(returned) : returned[i] = results[i]
        /\ \A i, j \in 1..Len(returned) :
              i < j => returned[i].score.total_score >= returned[j].score.total_score
        /\ \A i \in 1..Len(returned) : \A j \in (Len(returned) + 1)..Len(results) :
              results[j].score.total_score <= returned[i].score.total_score

NothingPasses ==
    \A i \in 1..Len(activities) : ~passes_hard_filters(Catalog[activities[i]], criteria)

\* C19: empty inputs are not errors: when the collection is empty or the filters
\* eliminate every activity, each step of process runs on an empty list and the call
\* returns the empty list, whatever the criteria, priority set, include_breaks,
\* max_activity_count and limit.
EmptyInEmptyOut ==
    NothingPasses =>
        /\ pc \in {"score", "add_breaks", "rescore", "return", "done"}
              => filtered_activities = <<>>
        /\ pc \in {"add_breaks", "rescore", "return", "done"} => results = <<>>
        /\ pc = "done" => returned = <<>>
        /\ pc \in {"filter", "score", "add_breaks", "rescore", "return"} => ENABLED Next

\* a call with breaks, plans and a positive limit on a collection of two or more, all
\* eliminated by the filters, that returned the empty list
FiltersEliminatedEverything ==
    /\ pc = "done"
    /\ Len(activities) >= 2
    /\ NothingPasses
    /\ include_breaks
    /\ max_activity_count >= 2
    /\ limit >= 1
    /\ returned = <<>>

\* C24: break assignment applies only to multi-activity candidates: in every result
\* of process, whether or not candidates of two or more activities were generated
\* alongside, the activity of every single-activity candidate has break_after absent.
SinglesCarryNoBreak ==
    pc = "done" =>
        \A i \in 1..Len(returned) :
            Len(returned[i].activities) = 1
                => IsNone(break_after[returned[i].activities[1]])

\* C27: with include_breaks = false the break assigner never runs: at no point of the
\* call does an activity hold another break_after than when the call started, so every
\* returned activity that carried no break before the call has break_after absent.
NoBreaksUnlessRequested ==
    (pc # "idle" /\ ~include_breaks) =>
        /\ break_after = break_before
        /\ pc = "done" =>
              \A i \in 1..Len(returned) : \A k \in 1..Len(returned[i].activities) :
                  IsNone(break_before[returned[i].activities[k]])
                      => IsNone(break_after[returned[i].activities[k]])

\* a call without breaks that returned a plan of two activities of different formats,
\* neither holding a break, on a collection where an earlier call left a break
PlanReturnedWithoutBreaks ==
    /\ pc = "done"
    /\ ~include_breaks
    /\ \E i \in 1..Len(returned) :
          LET plan == returned[i].activities
          IN  /\ Len(plan) = 2
              /\ Catalog[plan[1]].format # Catalog[plan[2]].format
              /\ IsNone(break_after[plan[1]])
              /\ IsNone(break_after[plan[2]])
    /\ \E id \in 1..NumActs : ~IsNone(break_after[id])

-----------------------------------------------------------------------------
(* Properties of the duration scorer (SpecDuration) *)

\* C12: duration fit: with total = the sum of the midpoints (min + max) / 2 (min used
\* when max is absent) plus the breaks of the non-final activities, the score is 100
\* when total = target, (1 - |total - target| / target) x 100 truncated to an integer
\* when the deviation is at most half the target (50 at the boundary), 0 beyond, and 0
\* when no target duration is given or total is 0.
DurationFitFollowsTheFormula ==
    pc = "duration_scored" =>
        LET Midpoint(a) == IF a.duration_max_minutes = None \/ a.duration_max_minutes = Some(0)
                           THEN a.duration_min_minutes
                           ELSE (a.duration_min_minutes + a.duration_max_minutes[1]) \div 2
            BreakOf(a)  == IF a.break_after = None THEN 0 ELSE a.break_after[1].duration
            total  == SumSeq([i \in 1..Len(subject) |-> Midpoint(subject[i])])
                      + SumSeq([i \in 1..(Len(subject) - 1) |-> BreakOf(subject[i])])
            target == criteria.target_duration
        IN  out.score =
                IF target = None \/ total = 0 THEN 0
                ELSE IF total = target[1] THEN 100
                ELSE IF 2 * Abs(total - target[1]) <= target[1]
                THEN ((target[1] - Abs(total - target[1])) * 100) \div target[1]
                ELSE 0

\* C13: _score_duration_fit never adds the break of the last activity of its list: the
\* score is the one the same list gets with that break taken away, so a single
\* activity's duration fit ignores its break_after.
LastBreakNotCounted ==
    pc = "duration_scored" =>
        LET n        == Len(subject)
            stripped == [subject EXCEPT ![n].break_after = None]
        IN  out = _score_duration_fit(stripped, criteria, priority_categories)

\* a scored list whose last activity carries a break that would have changed the score
LastBreakWouldHaveCounted ==
    /\ pc = "duration_scored"
    /\ subject[Len(subject)].break_after # None
    /\ criteria.target_duration # None
    /\ out.score = 100

-----------------------------------------------------------------------------
(* Properties of the age scorer (SpecAge) *)

\* C14: for a fixed [age_min, age_max] the age score is 100 for a target age inside
\* the range, (5 - distance) / 5 x 100 at distance <= 5 from the nearer bound, 0 at
\* every greater distance, and so never higher for a target that is farther away.
AgeScoreDecaysWithDistance ==
    (pc = "age_scored" /\ criteria.target_age # None) =>
        LET Distance(t) == IF t < subject.age_min THEN subject.age_min - t
                           ELSE IF t > subject.age_max THEN t - subject.age_max
                           ELSE 0
            ScoreAt(t)  == _score_age_appropriateness(
                               subject, [criteria EXCEPT !.target_age = Some(t)],
                               priority_categories).score
            d           == Distance(criteria.target_age[1])
        IN  /\ d = 0 => out.score = 100
            /\ d \in 1..5 => out.score = (5 - d) * 20
            /\ d > 5 => out.score = 0
            /\ \A t \in TargetAges : Distance(t) >= d => ScoreAt(t) <= out.score

\* a target age above the range at a distance that earns a partial score
AgeScoredPartlyAboveTheRange ==
    /\ pc = "age_scored"
    /\ criteria.target_age # None
    /\ criteria.target_age[1] > subject.age_max
    /\ out.score \in 1..99

-----------------------------------------------------------------------------
(* Properties of the age filter and scorer together (SpecAgeFilter) *)

\* the distance of the target age to the nearer bound of the range of the activity
\* under test, 0 inside the range
AgeDistance ==
    LET target_age == criteria.target_age[1]
    IN  IF target_age < subject.age_min THEN subject.age_min - target_age
        ELSE IF target_age > subject.age_max THEN target_age - subject.age_max
        ELSE 0

\* C25: whenever target_age is given, an activity whose age_appropriateness score
\* would be 0 (distance to the nearer bound of 5 or more) is removed by the filter
\* before scoring, and an activity that is returned has distance at most 2 and an
\* age_appropriateness score of at least 60.
AgeFilterStricterThanScorer ==
    (pc = "age_filtered" /\ ~IsNone(criteria.target_age)) =>
        LET would == _score_age_appropriateness(subject, criteria, priority_categories)
        IN  /\ would.score = 0 <=> AgeDistance >= 5
            /\ would.score = 0 => out = <<>>
            /\ out # <<>> =>
                  /\ AgeDistance <= 2
                  /\ out[1].category_scores["age_appropriateness"].score >= 60

\* an activity five years from the target age, removed, and never scored
ZeroAgeScoreWasFilteredOut ==
    /\ pc = "age_filtered"
    /\ ~IsNone(criteria.target_age)
    /\ AgeDistance = 5
    /\ out = <<>>

-----------------------------------------------------------------------------
(* Properties of the cohesion scorer (SpecCohesion) *)

\* C15: for two or more activities the series_cohesion score is the integer part of
\* 50 x the average Jaccard overlap of the topic sets of consecutive pairs (a pair
\* with an empty topic set counting 0), plus 50 when the Bloom levels never decrease
\* along the list and 25 otherwise, capped at 100; for a single activity it is 60.
CohesionIsOverlapPlusProgression ==
    pc = "cohesion_scored" =>
        LET step == [remember |-> 1, understand |-> 2, apply |-> 3, analyze |-> 4,
                     evaluate |-> 5, create |-> 6]
            n    == Len(subject)
            \* the Jaccard overlap of the pair at i, in twelfths (a union has 1..4 topics)
            Jaccard12(i) ==
                IF subject[i].topics = {} \/ subject[i + 1].topics = {} THEN 0
                ELSE (12 * Cardinality(subject[i].topics \cap subject[i + 1].topics))
                         \div Cardinality(subject[i].topics \cup subject[i + 1].topics)
            rising == \A i \in 1..(n - 1) :
                          step[subject[i].bloom_level] <= step[subject[i + 1].bloom_level]
            sum12  == SumSeq([i \in 1..(n - 1) |-> Jaccard12(i)])
        IN  IF n = 1 THEN out.score = 60
            ELSE out.score = Min2(100, (50 * sum12) \div (12 * (n - 1))
                                           + (IF rising THEN 50 ELSE 25))

\* a list of three activities with a partial topic overlap and a Bloom level that drops
CohesionOfAnUnevenPlan ==
    /\ pc = "cohesion_scored"
    /\ Len(subject) = 3
    /\ out.score \in 26..49

-----------------------------------------------------------------------------
(* Properties of the break assignment (SpecBreaks) *)

\* C16: on a list of two or more activities none of which carries a break,
\* _assign_breaks_to_activities gives a non-final activity a Break exactly when a
\* reason applies to it; the duration is cleanup time (if > 0) + 10 for a high mental
\* load + 5 for a high physical energy + 5 when the next format differs, rounded up
\* to a multiple of 5, so a positive multiple of 5; the reasons are the applicable
\* ones in the order cleanup, mental rest, physical rest, transition, and the
\* description is the reasons joined by "; ".  The final activity gets none.
BreakFollowsItsReasons ==
    pc = "breaks_assigned" =>
        /\ break_after[activities[Len(activities)]] = None
        /\ \A k \in 1..(Len(activities) - 1) :
              LET a       == Catalog[activities[k]]
                  next    == Catalog[activities[k + 1]]
                  cleanup == IF a.cleanup_time_minutes # None /\ a.cleanup_time_minutes[1] > 0
                             THEN a.cleanup_time_minutes[1] ELSE 0
                  mental  == a.mental_load = Some("high")
                  energy  == a.physical_energy = Some("high")
                  change  == a.format # next.format
                  total   == cleanup + (IF mental THEN 10 ELSE 0) + (IF energy THEN 5 ELSE 0)
                             + (IF change THEN 5 ELSE 0)
                  reasons == (IF cleanup > 0 THEN <<"Cleanup time for " \o a.name>> ELSE <<>>)
                             \o (IF mental
                                 THEN <<"Mental rest break after high cognitive load">>
                                 ELSE <<>>)
                             \o (IF energy
                                 THEN <<"Physical rest break after high energy activity">>
                                 ELSE <<>>)
                             \o (IF change
                                 THEN <<"Transition break from " \o a.format \o " to "
                                            \o next.format>>
                                 ELSE <<>>)
                  held    == break_after[activities[k]]
              IN  IF reasons = <<>> THEN held = None
                  ELSE /\ held # None
                       /\ held[1].duration = ((total + 4) \div 5) * 5
                       /\ held[1].duration > 0 /\ held[1].duration % 5 = 0
                       /\ held[1].reasons = reasons
                       /\ held[1].description = Join(reasons, "; ")

\* the scenario of a cleanup of 10 minutes and a high mental load before an activity
\* of another format: a break of 25 minutes with three reasons, on the first activity
BreakOfThreeReasons ==
    /\ pc = "breaks_assigned"
    /\ Len(activities) = 2
    /\ break_after[activities[1]] # None
    /\ break_after[activities[1]][1].duration = 25
    /\ Len(break_after[activities[1]][1].reasons) = 3
    /\ break_after[activities[1]][1].description =
           "Cleanup time for A6; Mental rest break after high cognitive load; "
               \o "Transition break from unplugged to digital"

-----------------------------------------------------------------------------
(* Properties of the candidate generation (SpecPool) *)

RECURSIVE Binomial(_, _)
\* the number of k-combinations of n things
Binomial(n, k) ==
    IF k = 0 THEN 1
    ELSE IF n < k THEN 0
    ELSE Binomial(n - 1, k - 1) + Binomial(n - 1, k)

\* C17: the pool holds one single-activity candidate per survivor of the filter and,
\* only when max_activity_count > 1 and more than one activity survived, for each k
\* from 2 to min(max_activity_count, 5) every k-combination (members in filtered
\* order, none repeated) of the first 20 survivors, each once.  So no candidate has
\* more than max(1, min(max_activity_count, 5)) activities and no survivor past the
\* 20th is in a candidate of two or more.
PoolIsSinglesAndCombinations ==
    pc = "pooled" =>
        LET survivors == filtered_activities
            seeds     == SubSeq(survivors, 1, Min2(Len(survivors), 20))
            sizes     == IF max_activity_count > 1 /\ Len(survivors) > 1
                         THEN 2..Min2(max_activity_count, 5) ELSE {}
            pool      == [i \in 1..Len(results) |-> results[i].activities]
            Seat(id)  == CHOOSE q \in 1..Len(seeds) : seeds[q] = id
            IsPlan(c) == /\ Len(c) \in sizes
                         /\ \A j \in 1..Len(c) : \E q \in 1..Len(seeds) : seeds[q] = c[j]
                         /\ \A j \in 1..(Len(c) - 1) : Seat(c[j]) < Seat(c[j + 1])
        IN  /\ Len(pool) = Len(survivors)
                           + SumOver([k \in sizes |-> Binomial(Len(seeds), k)], sizes)
            /\ Cardinality({pool[i] : i \in 1..Len(pool)}) = Len(pool)
            /\ \A i \in 1..Len(pool) :
                  \/ \E q \in 1..Len(survivors) : pool[i] = <<survivors[q]>>
                  \/ IsPlan(pool[i])
            /\ \A i \in 1..Len(pool) :
                  /\ Len(pool[i]) <= Max2(1, Min2(max_activity_count, 5))
                  /\ Len(pool[i]) >= 2 =>
                        \A j \in 1..Len(pool[i]) : \A q \in 21..Len(survivors) :
                            pool[i][j] # survivors[q]

\* a pool from more than 20 survivors: 190 pairs of the first 20, and the 21st alone
PoolFromMoreThanTwentySurvivors ==
    /\ pc = "pooled"
    /\ Len(filtered_activities) > 20
    /\ max_activity_count = 2
    /\ Len(results) = Len(filtered_activities) + 190

-----------------------------------------------------------------------------
(* Properties of the endpoints (SpecTransport) *)

\* C20: the transport layer never renders a break after the final activity: in every
\* recommendation of the response the last activity's break_after is null, whatever
\* the engine attached to it; and the lesson-plan endpoint passes at most
\* len(activities) - 1 breaks to the PDF generator, none of them the break_after of
\* the last activity.
NoBreakAfterTheFinalActivity ==
    /\ pc = "responded" =>
          \A i \in 1..Len(out.activities) :
              LET rendered == out.activities[i].activities
              IN  /\ Len(rendered) = Len(returned[i].activities)
                  /\ Len(rendered) >= 1 => IsNone(rendered[Len(rendered)].break_after)
    /\ pc = "pdf_generated" =>
          LET acts == out.activities
          IN  /\ acts = subject.activities
              /\ Len(out.breaks) <= Len(acts) - 1
              /\ \A k \in 1..Len(out.breaks) :
                    out.breaks[k].description # "after " \o ToString(Len(acts))

\* a lesson plan of two or more activities, each holding a break, the last too, sent
\* without a list of breaks: the generator got the breaks of all but the last
LessonPlanLeftTheLastBreakOut ==
    /\ pc = "pdf_generated"
    /\ Len(subject.activities) >= 2
    /\ subject.breaks = None
    /\ \A idx \in 1..Len(subject.activities) :
          TruthyDict(subject.activities[idx].break_after)
    /\ Len(out.breaks) = Len(subject.activities) - 1

-----------------------------------------------------------------------------
(* Properties of the user deletion (SpecDelete) *)

\* the rows of a database that belong to a user
RowsOf(rows, user_id) ==
    [users |-> {u \in rows.users : u.id = user_id},
     verification_codes |-> {r \in rows.verification_codes : r.user_id = user_id},
     user_search_history |-> {r \in rows.user_search_history : r.user_id = user_id},
     user_favourites |-> {r \in rows.user_favourites : r.user_id = user_id}]

\* a finished delete_user call on a user that existed
DeletedAnExistingUser ==
    /\ req # <<>>
    /\ req[1].op = "delete_user"
    /\ req[1].state = "done"
    /\ RowsOf(req[1].before, req[1].user_id).users # {}

\* C21: delete_user on an existing user, with no failure of the database, returns True
\* and leaves no trace of the user: the user row, all its verification codes, its
\* search history and its favourites are gone, the other users' rows are untouched, and
\* the deletion was committed exactly once.
DeleteUserLeavesNoTrace ==
    (DeletedAnExistingUser /\ req[1].fail_at = 0) =>
        /\ req[1].result.returned = Some(TRUE)
        /\ RowsOf(db, req[1].user_id) = Tables({}, {}, {}, {})
        /\ \A u \in UserIds \ {req[1].user_id} : RowsOf(db, u) = RowsOf(req[1].before, u)
        /\ req[1].result.commits = 1

\* C22: user deletion is all-or-nothing: when a step of delete_user fails, the session
\* is rolled back, an IntegrityError is raised (any other exception wrapped in one),
\* and the user with all its codes, history and favourites is present as before.
DeleteUserAllOrNothing ==
    (DeletedAnExistingUser /\ req[1].result.returned # Some(TRUE)) =>
        /\ req[1].result.raised = Some("IntegrityError")
        /\ req[1].result.rollbacks = 1
        /\ req[1].result.commits = 0
        /\ db = req[1].before

\* a deletion that failed after the user's codes had been deleted in the session: the
\* user still has its two codes, its history entry and its favourite
FailedAfterDeletingTheCodes ==
    /\ DeletedAnExistingUser
    /\ req[1].fail_at # 1
    /\ req[1].result.raised = Some("IntegrityError")
    /\ req[1].result.orig # Some("IntegrityError")
    /\ Cardinality(RowsOf(db, req[1].user_id).verification_codes) = 2
    /\ RowsOf(db, req[1].user_id).user_search_history # {}
    /\ RowsOf(db, req[1].user_id).user_favourites # {}

-----------------------------------------------------------------------------
(* Properties of the verification codes (SpecVerify) *)

\* the last call was this operation
LastCall(op) == req # <<>> /\ req[1].op = op /\ req[1].state = "done"

\* the step is a call of this operation: the clock stands and the call is the last one
\* of the next state
Calls(op) == now' = now /\ req'[1].op = op

\* the code rows with this key
CodeRows(rows, id) == {r \in rows.verification_codes : r.id = id}

\* a row of the user with the code, unused and unexpired
Acceptable(r, user_id, code) ==
    /\ r.user_id = user_id
    /\ r.code = code
    /\ r.used = "N"
    /\ r.expires_at > now

\* C23: a verification code is single-use: verify_verification_code returns True only
\* for a code row of that user that is unused, unexpired and has fewer than three
\* attempts, and marks it used; no code row is ever accepted twice; and when the
\* matching row has three or more attempts the call returns False and marks it used.
CodeIsSingleUse ==
    [][ /\ \A id \in DOMAIN accepted' : accepted'[id] <= 1
        /\ Calls("verify_verification_code") =>
            LET call == req'[1]
                matching == {r \in db.verification_codes :
                                Acceptable(r, call.user_id, call.code)}
            IN  /\ call.result =>
                    /\ \E r \in matching : r.id = call.row /\ r.attempts < ATTEMPTS_LIMIT
                    /\ CodeRows(db', call.row) # {}
                    /\ \A r \in CodeRows(db', call.row) : r.used = "Y"
                    /\ accepted'[call.row] = accepted[call.row] + 1
                /\ (matching # {} /\ \A r \in matching : r.attempts >= ATTEMPTS_LIMIT) =>
                    /\ ~call.result
                    /\ \E r \in matching : r.id = call.row
                    /\ \A r \in CodeRows(db', call.row) : r.used = "Y"
                /\ matching = {} => ~call.result
      ]_vars

\* a code accepted once was submitted again before it expired, and rejected
AcceptedCodeSubmittedAgain ==
    /\ LastCall("verify_verification_code")
    /\ ~req[1].result
    /\ \E r \in db.verification_codes :
          /\ r.user_id = req[1].user_id
          /\ r.code = req[1].code
          /\ r.expires_at > now
          /\ accepted[r.id] = 1

\* the teacher with the email of the call holds this row, unused and unexpired
Held(r, email) ==
    /\ r.used = "N"
    /\ r.expires_at > now
    /\ \E u \in db.users : u.id = r.user_id /\ u.email = email /\ u.role = "TEACHER"

\* C28: failed verifications are counted: a failing call of
\* AuthService.verify_verification_code for a teacher who holds an unused unexpired
\* code increments the attempts of that code.
FailedVerificationsAreCounted ==
    [][ (Calls("AuthService.verify_verification_code") /\ ~req'[1].result) =>
            \A r \in db.verification_codes :
                Held(r, req'[1].email) =>
                    \E q \in CodeRows(db', r.id) : q.attempts = r.attempts + 1
      ]_vars

-----------------------------------------------------------------------------
(* Properties of concurrent verifications (SpecVerifyRace) *)

\* C29: of two concurrent verify requests that submit the same valid code for the same
\* user, at most one is accepted.
AtMostOneRequestAccepted ==
    (/\ req # <<>>
     /\ \A p \in DOMAIN req : req[p].op = "verify_code" /\ req[p].state = "done"
     /\ Len(req) = 2
     /\ req[1].email = req[2].email
     /\ req[1].code = req[2].code) =>
        ~(req[1].result /\ req[2].result)

-----------------------------------------------------------------------------
(* Properties of the favourites (SpecFavourites) *)

\* C30: after any sequence or interleaving of save requests there is at most one
\* favourite record of type 'activity' per user and activity, and a request answered
\* with 409 created no record.
OneFavouritePerUserAndActivity ==
    (req # <<>> /\ \A p \in DOMAIN req : req[p].op = "save_activity_favourite") =>
        /\ \A r, q \in db.user_favourites :
              (/\ r.favourite_type = "activity"
               /\ q.favourite_type = "activity"
               /\ r.user_id = q.user_id
               /\ r.activity_id = q.activity_id) => r = q
        /\ \A p \in DOMAIN req :
              req[p].status = 409 =>
                  /\ req[p].favourite_id = 0
                  /\ is_activity_favourited(db, req[p].user_id, req[p].activity_id)

-----------------------------------------------------------------------------
(* Properties of the filter (SpecFilter) *)

\* C7 as stated: apply_hard_filters returns, in input order and without modifying
\* any activity, exactly the activities that pass every filter whose criteria field is
\* present (not None): the age window with tolerance 2, the format list, the duration
\* ceiling, the required resources within the available ones, the Bloom level among
\* the criterion levels, a topic shared with the preferred topics.  An absent field
\* skips its filter, so criteria with no fields return the whole input.
FilterKeepsExactlyThePassing ==
    pc \in {"filtered", "refiltered"} =>
        LET Survives(id) ==
                LET a == Catalog[id]
                IN  /\ criteria.target_age # None =>
                          /\ a.age_min <= criteria.target_age[1] + 2
                          /\ a.age_max >= criteria.target_age[1] - 2
                    /\ criteria.format # None => a.format \in criteria.format[1]
                    /\ criteria.target_duration # None =>
                          a.duration_min_minutes <= criteria.target_duration[1]
                    /\ criteria.available_resources # None =>
                          a.resources_needed \subseteq criteria.available_resources[1]
                    /\ criteria.bloom_levels # None =>
                          a.bloom_level \in criteria.bloom_levels[1]
                    /\ criteria.preferred_topics # None =>
                          a.topics \cap criteria.preferred_topics[1] # {}
        IN  /\ filtered_activities = SelectSeq(activities, Survives)
            /\ criteria = NoCriteria => filtered_activities = activities
            /\ break_after = break_before

\* C7 as amended: the same, where a list field counts as present only when it is
\* neither None nor the empty list: apply_hard_filters returns, in input order and
\* without modifying any activity, exactly the activities that pass the filter of
\* every criteria field that is set to a number or to a non-empty list; a field that
\* is None or an empty list skips its filter.
FilterKeepsExactlyThePassingNonEmpty ==
    pc \in {"filtered", "refiltered"} =>
        LET Given(o) == o # None /\ o[1] # {}
            Survives(id) ==
                LET a == Catalog[id]
                IN  /\ criteria.target_age # None =>
                          /\ a.age_min <= criteria.target_age[1] + 2
                          /\ a.age_max >= criteria.target_age[1] - 2
                    /\ Given(criteria.format) => a.format \in criteria.format[1]
                    /\ criteria.target_duration # None =>
                          a.duration_min_minutes <= criteria.target_duration[1]
                    /\ Given(criteria.available_resources) =>
                          a.resources_needed \subseteq criteria.available_resources[1]
                    /\ Given(criteria.bloom_levels) =>
                          a.bloom_level \in criteria.bloom_levels[1]
                    /\ Given(criteria.preferred_topics) =>
                          a.topics \cap criteria.preferred_topics[1] # {}
        IN  /\ filtered_activities = SelectSeq(activities, Survives)
            /\ criteria = NoCriteria => filtered_activities = activities
            /\ break_after = break_before

\* a filtering under criteria with every field set, the list fields non-empty, that
\* keeps some activities and removes others
FilterSplitsTheCollection ==
    /\ pc = "filtered"
    /\ criteria.target_age # None /\ criteria.target_duration # None
    /\ TruthyList(criteria.format) /\ TruthyList(criteria.available_resources)
    /\ TruthyList(criteria.bloom_levels) /\ TruthyList(criteria.preferred_topics)
    /\ filtered_activities # <<>>
    /\ Len(filtered_activities) < Len(activities)

\* C8: filtering is idempotent: filtering the filtered list again under the same
\* criteria returns it element for element, in the same order.
FilterIdempotent ==
    pc = "refiltered" => out = filtered_activities

\* a second filtering of a list the first one had shortened but not emptied
RefilteredAShortenedList ==
    /\ pc = "refiltered"
    /\ filtered_activities # <<>>
    /\ Len(filtered_activities) < Len(activities)

=============================================================================
